---- MODULE Spec2Model ----
(***************************************************************************)
(* django-dag: a directed acyclic graph of Nodes joined by Edge rows.      *)
(* The state is the Edge table; the operations are the BaseNode methods    *)
(* that write it (add_child, add_parent, remove_child, remove_parent,      *)
(* move_node).  The read-only methods of the standard backend (ancestors,  *)
(* descendants, clan, get_paths, distance, get_roots, get_leaves) are      *)
(* operators over an Edge table, written as the code computes them.        *)
(***************************************************************************)
EXTENDS Integers, Sequences, FiniteSets, TLC

\* Number of Node rows (primary keys 1..NumNodes).
NumNodes == 4
\* Largest number of rows the Edge table holds.
MaxEdges == 4

Nodes == 1..NumNodes

\* The Edge table: a set of rows [parent, child, n].  An Edge of this DAG
\* holds nothing but its two foreign keys, so the rows of one (parent, child)
\* pair are interchangeable; n numbers them 1, 2, ... in primary-key order.
VARIABLES edges,
\* The Edge table of the DAG ordered by an Edge sequence (testapp OrderedEdge
\* with DagEdgeIntSorter): a set of rows [id, parent, child, sequence].
          oedges,
\* The sequence field of the Node rows of the DAG ordered by a Node sequence
\* (testapp OrderedNode with DagNodeIntSorter); its Edge table is edges.
          node_sequence,
\* The sequence_manager the DAG was built with (the ordering argument of
\* node_factory and edge_factory).
          sequence_manager,
\* The calls that have begun and not ended, one entry per caller: a call of
\* add_child is between the check of Edge.save and its write, an insertion
\* between the reads of the sibling keys and add_child.
          in_flight,
\* Whether the callers wrap each call in a lock of the store, so that
\* calls run one at a time.  The library takes no lock itself.
          atomic,
\* The latest top-level call of descendants / ancestors: the node it was
\* made on, the cached_results dict as the call left it, whether the table
\* was written since (fresh = FALSE), and whether the value it returned
\* differs from the one the dict of the call before held for that node.
          last_call

vars == <<edges, oedges, node_sequence, sequence_manager, in_flight, atomic, last_call>>

\* The values of sequence_manager: False (no ordering) and the two
\* controllers of the testapp.
NoOrdering == "False"
DagEdgeIntSorter == "DagEdgeIntSorter"
DagNodeIntSorter == "DagNodeIntSorter"

\* Number of concurrent callers.
NumCallers == 2
Callers == 1..NumCallers
\* A caller with no call begun, and all callers so.
Idle == [pc |-> "idle", parent |-> 0, child |-> 0, sequence |-> 0]
no_calls == [c \in Callers |-> Idle]

\* No top-level call of descendants / ancestors made yet.
no_call == [call |-> "none", node |-> 0, dict |-> <<>>, fresh |-> FALSE, changed |-> FALSE]
\* The table is written: what the latest call returned is out of date.
out_of_date(call) == [call EXCEPT !.fresh = FALSE]

\* IntegerField(default=0) of every Node row.
default_sequence == [n \in Nodes |-> 0]

\* Exception values; "none" stands for a normal return.
NoError == "none"
SelfLinkMessage == "Self links are not allowed."
CyclicLinkMessage == "The object is an ancestor."
NodeNotReachableException == "NodeNotReachableException"
InvalidNodeMove == "InvalidNodeMove"
DoesNotExist == "DoesNotExist"
MultipleObjectsReturned == "MultipleObjectsReturned"

\* None, where a Node is expected.
None == 0

----------------------------------------------------------------------------
(* Rows of a query as a list.  No query of the backend states an order;    *)
(* the rows come by (parent, child, n).                                    *)

RowBefore(x, y) ==
    \/ x.parent < y.parent
    \/ x.parent = y.parent /\ x.child < y.child
    \/ x.parent = y.parent /\ x.child = y.child /\ x.n <= y.n

RECURSIVE Rows(_)
Rows(S) ==
    IF S = {} THEN <<>>
    ELSE LET e == CHOOSE x \in S : \A y \in S : RowBefore(x, y)
         IN <<e>> \o Rows(S \ {e})

\* Edge.objects.filter(parent=p)
EdgesFrom(E, p) == Rows({e \in E : e.parent = p})
\* Edge.objects.filter(child=c)
EdgesTo(E, c) == Rows({e \in E : e.child = c})
\* Edge.objects.filter(parent=p, child=c)
EdgesBetween(E, p, c) == Rows({e \in E : e.parent = p /\ e.child = c})

\* node.children.all(): one row per Edge row leaving the node.
children_all(E, n) ==
    LET rows == EdgesFrom(E, n) IN [i \in 1..Len(rows) |-> rows[i].child]
\* node.parents.all(): one row per Edge row entering the node.
parents_all(E, n) ==
    LET rows == EdgesTo(E, n) IN [i \in 1..Len(rows) |-> rows[i].parent]

Range(s) == {s[i] : i \in DOMAIN s}

\* list(a_set): the elements once each (the order is not specified).
RECURSIVE list(_)
list(S) ==
    IF S = {} THEN <<>>
    ELSE LET m == CHOOSE x \in S : \A y \in S : x <= y
         IN <<m>> \o list(S \ {m})

----------------------------------------------------------------------------
(* ProtoNode._get_descendant / _get_ancestor: recursive set union with a   *)
(* cache (cached_results) shared by the whole call tree.  Each returns the *)
(* result set together with the cache as the call leaves it, and the nodes *)
(* whose loop over children.all() / parents.all() ran, in the order they   *)
(* ran (expanded).                                                         *)

RECURSIVE _get_descendant(_, _, _), _get_descendant_loop(_, _, _, _)

\* Faulty variant of the loop: the children are added, their own
\* descendants are not (res.update(...) left out).
_get_descendant_loop_ChildrenOnly(E, fs, res, cached_results) ==
    IF fs = <<>> THEN [res |-> res, cache |-> cached_results, expanded |-> <<>>]
    ELSE LET f == Head(fs)
             sub == _get_descendant(E, f, cached_results)
             rest == _get_descendant_loop(E, Tail(fs), res \cup {f}, sub.cache)
         IN [rest EXCEPT !.expanded = sub.expanded \o rest.expanded]

\* Faulty variant: the cache is written and never read.
_get_descendant_NoMemo(E, self, cached_results) ==
    LET r == _get_descendant_loop(E, children_all(E, self), {}, cached_results)
    IN [res |-> r.res, cache |-> (self :> r.res) @@ r.cache,
        expanded |-> <<self>> \o r.expanded]

_get_descendant(E, self, cached_results) ==
    IF self \in DOMAIN cached_results
    THEN [res |-> cached_results[self], cache |-> cached_results, expanded |-> <<>>]
    ELSE LET r == _get_descendant_loop(E, children_all(E, self), {}, cached_results)
         IN [res |-> r.res, cache |-> (self :> r.res) @@ r.cache,
             expanded |-> <<self>> \o r.expanded]

\* for f in self.children.all(): res.add(f); res.update(f._get_descendant(...))
_get_descendant_loop(E, fs, res, cached_results) ==
    IF fs = <<>> THEN [res |-> res, cache |-> cached_results, expanded |-> <<>>]
    ELSE LET f == Head(fs)
             sub == _get_descendant(E, f, cached_results)
             rest == _get_descendant_loop(E, Tail(fs), res \cup {f} \cup sub.res, sub.cache)
         IN [rest EXCEPT !.expanded = sub.expanded \o rest.expanded]

RECURSIVE _get_ancestor(_, _, _), _get_ancestor_loop(_, _, _, _)
_get_ancestor(E, self, cached_results) ==
    IF self \in DOMAIN cached_results
    THEN [res |-> cached_results[self], cache |-> cached_results, expanded |-> <<>>]
    ELSE LET r == _get_ancestor_loop(E, parents_all(E, self), {}, cached_results)
         IN [res |-> r.res, cache |-> (self :> r.res) @@ r.cache,
             expanded |-> <<self>> \o r.expanded]

_get_ancestor_loop(E, fs, res, cached_results) ==
    IF fs = <<>> THEN [res |-> res, cache |-> cached_results, expanded |-> <<>>]
    ELSE LET f == Head(fs)
             sub == _get_ancestor(E, f, cached_results)
             rest == _get_ancestor_loop(E, Tail(fs), res \cup {f} \cup sub.res, sub.cache)
         IN [rest EXCEPT !.expanded = sub.expanded \o rest.expanded]

\* dag.models.NodeBase.descendants_set / ancestors_set: the recursive set
\* union with no cache.
RECURSIVE descendants_set(_, _), descendants_set_loop(_, _, _)
descendants_set(E, self) == descendants_set_loop(E, children_all(E, self), {})

descendants_set_loop(E, fs, res) ==
    IF fs = <<>> THEN res
    ELSE descendants_set_loop(E, Tail(fs), res \cup {Head(fs)} \cup descendants_set(E, Head(fs)))

RECURSIVE ancestors_set(_, _), ancestors_set_loop(_, _, _)
ancestors_set(E, self) == ancestors_set_loop(E, parents_all(E, self), {})

ancestors_set_loop(E, fs, res) ==
    IF fs = <<>> THEN res
    ELSE ancestors_set_loop(E, Tail(fs), res \cup {Head(fs)} \cup ancestors_set(E, Head(fs)))

\* cached_results=None becomes a fresh dict() in each top-level call.
get_descendant_pks(E, self) == list(_get_descendant(E, self, <<>>).res)
get_ancestor_pks(E, self) == list(_get_ancestor(E, self, <<>>).res)

\* The descendants / ancestors properties: the same sets, as Node rows.
descendants(E, self) == _get_descendant(E, self, <<>>).res
ancestors(E, self) == _get_ancestor(E, self, <<>>).res

\* clan: ancestors | Node.objects.filter(pk=self.pk) | descendants
clan(E, self) == ancestors(E, self) \cup {n \in Nodes : n = self} \cup descendants(E, self)

\* Faulty variant: the node's own pk is left out of the list.
get_clan_pks_WithoutSelf(E, self) ==
    get_ancestor_pks(E, self) \o get_descendant_pks(E, self)

get_clan_pks(E, self) ==
    get_ancestor_pks(E, self) \o <<self>> \o get_descendant_pks(E, self)

----------------------------------------------------------------------------
(* BaseNode.circular_checker: the exception it raises, or NoError.         *)

\* Faulty variant: only the self link is refused.
circular_checker_SelfOnly(E, parent, child) ==
    IF parent = child THEN SelfLinkMessage ELSE NoError

\* Faulty variant: the child is looked for among the parents of the parent
\* only, not among all its ancestors.
circular_checker_ParentsOnly(E, parent, child) ==
    IF parent = child THEN SelfLinkMessage
    ELSE IF child \in Range(parents_all(E, parent)) THEN CyclicLinkMessage
    ELSE NoError

\* Faulty variant: the child is looked for among the descendants of the
\* parent instead of its ancestors.
circular_checker_Descendants(E, parent, child) ==
    IF parent = child THEN SelfLinkMessage
    ELSE IF child \in Range(get_descendant_pks(E, parent)) THEN CyclicLinkMessage
    ELSE NoError

circular_checker(E, parent, child) ==
    IF parent = child THEN SelfLinkMessage
    ELSE IF child \in Range(get_ancestor_pks(E, parent)) THEN CyclicLinkMessage
    ELSE NoError

\* Edge.save of an Edge parent -> child while the table is E: the check,
\* unless disabled, then super().save() leaves the table as `written`.
Edge_save(E, written, parent, child, disable_circular_check) ==
    LET chk == IF disable_circular_check THEN NoError
               ELSE circular_checker(E, parent, child)
    IN IF chk # NoError
       THEN [raised |-> chk, edges |-> E]
       ELSE [raised |-> NoError, edges |-> written]

----------------------------------------------------------------------------
(* ProtoNode.get_paths / _get_paths.  A call returns [raised, paths]:      *)
(* paths is a list of paths, a path a list of Nodes or of Edge rows.       *)

\* path_length starts at sys.maxsize (here the largest integer at hand).
sys_maxsize == 2147483647

RECURSIVE _get_paths(_, _, _, _, _), _get_paths_loop(_, _, _, _, _, _, _, _)

\* Faulty variant: for a direct child one path is returned, whatever the
\* number of Edge rows between the two nodes.
_get_paths_OneEdge(E, self, target, use_edges, downwards) ==
    IF self = target
    THEN [raised |-> NoError, paths |-> << <<>> >>]
    ELSE IF target \in Range(children_all(E, self))
    THEN IF use_edges
         THEN [raised |-> NoError, paths |-> << <<EdgesBetween(E, self, target)[1]>> >>]
         ELSE [raised |-> NoError,
               paths |-> << <<IF downwards THEN target ELSE self>> >>]
    ELSE IF target \in Range(get_descendant_pks(E, self))
    THEN [raised |-> NoError,
          paths |-> _get_paths_loop(E, self, target, use_edges, downwards,
                                    EdgesFrom(E, self), <<>>, sys_maxsize)]
    ELSE [raised |-> NodeNotReachableException, paths |-> <<>>]

\* Faulty variant of the loop: a path as short as the best so far is dropped
\* instead of appended.
_get_paths_loop_DropTies(E, self, target, use_edges, downwards, childItems, paths, path_length) ==
    IF childItems = <<>> THEN paths
    ELSE LET child_edge == Head(childItems)
             element == IF use_edges THEN child_edge
                        ELSE IF downwards THEN child_edge.child ELSE child_edge.parent
             sub == _get_paths(E, child_edge.child, target, use_edges, downwards)
             desc_paths == sub.paths
             desc_path_length == Len(desc_paths[1]) + 1
             prefixed == [i \in 1..Len(desc_paths) |-> <<element>> \o desc_paths[i]]
         IN IF sub.raised # NoError
            THEN _get_paths_loop(E, self, target, use_edges, downwards,
                                 Tail(childItems), paths, path_length)
            ELSE IF desc_path_length < path_length
            THEN _get_paths_loop(E, self, target, use_edges, downwards,
                                 Tail(childItems), prefixed, Len(prefixed[1]))
            ELSE _get_paths_loop(E, self, target, use_edges, downwards,
                                 Tail(childItems), paths, path_length)

\* Faulty variant of the loop: a node path holds the children of the edges
\* on the upward search too.
_get_paths_loop_ChildAlways(E, self, target, use_edges, downwards, childItems, paths, path_length) ==
    IF childItems = <<>> THEN paths
    ELSE LET child_edge == Head(childItems)
             element == IF use_edges THEN child_edge ELSE child_edge.child
             sub == _get_paths(E, child_edge.child, target, use_edges, downwards)
             desc_paths == sub.paths
             desc_path_length == Len(desc_paths[1]) + 1
             prefixed == [i \in 1..Len(desc_paths) |-> <<element>> \o desc_paths[i]]
         IN IF sub.raised # NoError
            THEN _get_paths_loop(E, self, target, use_edges, downwards,
                                 Tail(childItems), paths, path_length)
            ELSE IF desc_path_length < path_length
            THEN _get_paths_loop(E, self, target, use_edges, downwards,
                                 Tail(childItems), prefixed, Len(prefixed[1]))
            ELSE IF desc_path_length = path_length
            THEN _get_paths_loop(E, self, target, use_edges, downwards,
                                 Tail(childItems), paths \o prefixed, path_length)
            ELSE _get_paths_loop(E, self, target, use_edges, downwards,
                                 Tail(childItems), paths, path_length)

_get_paths(E, self, target, use_edges, downwards) ==
    IF self = target
    THEN [raised |-> NoError, paths |-> << <<>> >>]
    ELSE IF target \in Range(children_all(E, self))
    THEN IF use_edges
         THEN LET rows == EdgesBetween(E, self, target)
              IN [raised |-> NoError, paths |-> [i \in 1..Len(rows) |-> <<rows[i]>>]]
         ELSE [raised |-> NoError,
               paths |-> << <<IF downwards THEN target ELSE self>> >>]
    ELSE IF target \in Range(get_descendant_pks(E, self))
    THEN [raised |-> NoError,
          paths |-> _get_paths_loop(E, self, target, use_edges, downwards,
                                    EdgesFrom(E, self), <<>>, sys_maxsize)]
    ELSE [raised |-> NodeNotReachableException, paths |-> <<>>]

\* for child_edge in childItems: ...
_get_paths_loop(E, self, target, use_edges, downwards, childItems, paths, path_length) ==
    IF childItems = <<>> THEN paths
    ELSE LET child_edge == Head(childItems)
             element == IF use_edges THEN child_edge
                        ELSE IF downwards THEN child_edge.child ELSE child_edge.parent
             sub == _get_paths(E, child_edge.child, target, use_edges, downwards)
             desc_paths == sub.paths
             desc_path_length == Len(desc_paths[1]) + 1
             prefixed == [i \in 1..Len(desc_paths) |-> <<element>> \o desc_paths[i]]
         IN IF sub.raised # NoError
            THEN _get_paths_loop(E, self, target, use_edges, downwards,
                                 Tail(childItems), paths, path_length)
            ELSE IF desc_path_length < path_length
            THEN _get_paths_loop(E, self, target, use_edges, downwards,
                                 Tail(childItems), prefixed, Len(prefixed[1]))
            ELSE IF desc_path_length = path_length
            THEN _get_paths_loop(E, self, target, use_edges, downwards,
                                 Tail(childItems), paths \o prefixed, path_length)
            ELSE _get_paths_loop(E, self, target, use_edges, downwards,
                                 Tail(childItems), paths, path_length)

\* The downwards argument: None (search both ways), True or False.
DownNone == "None"
DownTrue == "True"
DownFalse == "False"
Downwards == {DownNone, DownTrue, DownFalse}

\* Faulty variant: the downward failure is not raised again when
\* downwards is True, so the upward search follows.
get_paths_NoReraise(E, self, target, use_edges, downwards) ==
    IF downwards \in {DownNone, DownTrue}
    THEN LET down == _get_paths(E, self, target, use_edges, TRUE)
         IN IF down.raised = NoError THEN down
            ELSE _get_paths(E, target, self, use_edges, FALSE)
    ELSE _get_paths(E, target, self, use_edges, FALSE)

get_paths(E, self, target, use_edges, downwards) ==
    IF downwards \in {DownNone, DownTrue}
    THEN LET down == _get_paths(E, self, target, use_edges, TRUE)
         IN IF down.raised = NoError THEN down
            ELSE IF downwards = DownTrue THEN down
            ELSE _get_paths(E, target, self, use_edges, FALSE)
    ELSE _get_paths(E, target, self, use_edges, FALSE)

\* Faulty variant: the sign is reversed when directed is False instead of
\* when it is True.
distance_SignSwapped(E, self, target, directed) ==
    LET reversing_sign == IF directed THEN 1 ELSE -1
        down == get_paths(E, self, target, FALSE, DownTrue)
        up == get_paths(E, self, target, FALSE, DownFalse)
    IN IF down.raised = NoError
       THEN [raised |-> NoError, value |-> Len(down.paths[1])]
       ELSE IF up.raised = NoError
       THEN [raised |-> NoError, value |-> reversing_sign * Len(up.paths[1])]
       ELSE [raised |-> up.raised, value |-> None]

\* BaseNode.distance: [raised, value].
distance(E, self, target, directed) ==
    LET reversing_sign == IF directed THEN -1 ELSE 1
        down == get_paths(E, self, target, FALSE, DownTrue)
        up == get_paths(E, self, target, FALSE, DownFalse)
    IN IF down.raised = NoError
       THEN [raised |-> NoError, value |-> Len(down.paths[1])]
       ELSE IF up.raised = NoError
       THEN [raised |-> NoError, value |-> reversing_sign * Len(up.paths[1])]
       ELSE [raised |-> up.raised, value |-> None]

----------------------------------------------------------------------------
(* ProtoNode.get_roots / get_leaves over the ancestors / descendants tree: *)
(* a dict {node: subtree}, here a function from the nodes to the subtrees. *)

RECURSIVE get_descendants_tree(_, _)
get_descendants_tree(E, self) ==
    [f \in Range(children_all(E, self)) |-> get_descendants_tree(E, f)]

RECURSIVE get_ancestors_tree(_, _)
get_ancestors_tree(E, self) ==
    [f \in Range(parents_all(E, self)) |-> get_ancestors_tree(E, f)]

RECURSIVE _get_roots(_, _)
_get_roots(self, at) ==
    IF DOMAIN at = {} THEN {self}
    ELSE UNION {_get_roots(a2, at[a2]) : a2 \in DOMAIN at}

\* Faulty variant: no fall back to the node itself when no root is found.
get_roots_NoFallback(E, self) ==
    LET at == get_ancestors_tree(E, self)
    IN UNION {_get_roots(a, at[a]) : a \in DOMAIN at}

get_roots(E, self) ==
    LET at == get_ancestors_tree(E, self)
        roots == UNION {_get_roots(a, at[a]) : a \in DOMAIN at}
    IN IF roots = {} THEN {self} ELSE roots

RECURSIVE _get_leaves(_, _)
_get_leaves(self, dt) ==
    IF DOMAIN dt = {} THEN {self}
    ELSE UNION {_get_leaves(d2, dt[d2]) : d2 \in DOMAIN dt}

get_leaves(E, self) ==
    LET dt == get_descendants_tree(E, self)
        leaves == UNION {_get_leaves(d, dt[d]) : d \in DOMAIN dt}
    IN IF leaves = {} THEN {self} ELSE leaves

----------------------------------------------------------------------------
(* BaseNode.is_root / is_leaf / is_island: properties over                 *)
(* self.parents.exists() and self.children.exists().                       *)

exists(rows) == Len(rows) > 0

\* Faulty variant: a root must also have a child.
is_root_WithChildren(E, self) ==
    exists(children_all(E, self)) /\ ~exists(parents_all(E, self))

is_root(E, self) == ~exists(parents_all(E, self))

\* Faulty variant: a leaf must also have a parent.
is_leaf_WithParents(E, self) ==
    exists(parents_all(E, self)) /\ ~exists(children_all(E, self))

is_leaf(E, self) == ~exists(children_all(E, self))

is_island(E, self) ==
    ~exists(children_all(E, self)) /\ ~exists(parents_all(E, self))

----------------------------------------------------------------------------
(* The operations, each as the call (what it raises and the table it       *)
(* leaves) and as the action that applies the call.  Every call is made    *)
(* with the default disable_circular_check=False.                          *)

Count(E, parent, child) == Cardinality({e \in E : e.parent = parent /\ e.child = child})

\* The table with one more row parent -> child.
Insert(E, parent, child) ==
    E \cup {[parent |-> parent, child |-> child, n |-> Count(E, parent, child) + 1]}

\* The table without the first row parent -> child; the pair's other rows
\* move up.
Delete(E, parent, child) ==
    {e \in E : ~(e.parent = parent /\ e.child = child)}
        \cup {[parent |-> parent, child |-> child, n |-> k] :
                k \in 1..(Count(E, parent, child) - 1)}

\* The table with the first row parent -> child given another parent.
Update(E, parent, child, new_parent) ==
    IF new_parent = parent THEN E
    ELSE Insert(Delete(E, parent, child), new_parent, child)

\* self.add_child(descendant)
add_child_call(E, self, descendant) ==
    Edge_save(E, Insert(E, self, descendant), self, descendant, FALSE)

\* self.add_parent(parent)
add_parent_call(E, self, parent) == add_child_call(E, parent, self)

\* self.remove_child(descendant): Edge.objects.get(...).delete(); get() raises
\* unless exactly one row matches.
remove_child_call(E, self, descendant) ==
    LET rows == EdgesBetween(E, self, descendant)
    IN IF Len(rows) = 0 THEN [raised |-> DoesNotExist, edges |-> E]
       ELSE IF Len(rows) > 1 THEN [raised |-> MultipleObjectsReturned, edges |-> E]
       ELSE [raised |-> NoError, edges |-> Delete(E, self, descendant)]

\* self.remove_parent(parent)
remove_parent_call(E, self, parent) ==
    LET rows == EdgesBetween(E, parent, self)
    IN IF Len(rows) = 0 THEN [raised |-> DoesNotExist, edges |-> E]
       ELSE IF Len(rows) > 1 THEN [raised |-> MultipleObjectsReturned, edges |-> E]
       ELSE [raised |-> NoError, edges |-> Delete(E, parent, self)]

\* self.move_node(origin_parent, destination_parent) on a DAG without a
\* sequence_manager (destination_sibling and position are for ordered DAGs).
\* The first Edge origin_parent -> self is given the new parent and saved.
move_node_call(E, self, origin_parent, destination_parent) ==
    LET rows == IF origin_parent # None
                THEN EdgesBetween(E, origin_parent, self) ELSE <<>>
    IN IF rows = <<>> THEN [raised |-> InvalidNodeMove, edges |-> E]
       ELSE LET chk == circular_checker(E, destination_parent, self)
            IN IF chk # NoError THEN [raised |-> chk, edges |-> E]
               ELSE Edge_save(E, Update(E, origin_parent, self, destination_parent),
                              destination_parent, self, FALSE)

Init ==
    /\ edges = {} /\ oedges = {}
    /\ node_sequence = default_sequence /\ sequence_manager = NoOrdering
    /\ in_flight = no_calls /\ atomic = TRUE /\ last_call = no_call

\* A call that raises leaves the table as it was.
add_child(self, descendant) ==
    LET call == add_child_call(edges, self, descendant)
    IN /\ Cardinality(call.edges) <= MaxEdges /\ edges' = call.edges
       /\ UNCHANGED <<oedges, node_sequence, sequence_manager, in_flight, atomic>>
       /\ last_call' = out_of_date(last_call)

add_parent(self, parent) ==
    LET call == add_parent_call(edges, self, parent)
    IN /\ Cardinality(call.edges) <= MaxEdges /\ edges' = call.edges
       /\ UNCHANGED <<oedges, node_sequence, sequence_manager, in_flight, atomic>>
       /\ last_call' = out_of_date(last_call)

remove_child(self, descendant) ==
    /\ edges' = remove_child_call(edges, self, descendant).edges
    /\ UNCHANGED <<oedges, node_sequence, sequence_manager, in_flight, atomic>>
    /\ last_call' = out_of_date(last_call)

remove_parent(self, parent) ==
    /\ edges' = remove_parent_call(edges, self, parent).edges
    /\ UNCHANGED <<oedges, node_sequence, sequence_manager, in_flight, atomic>>
    /\ last_call' = out_of_date(last_call)

move_node(self, origin_parent, destination_parent) ==
    /\ edges' = move_node_call(edges, self, origin_parent, destination_parent).edges
    /\ UNCHANGED <<oedges, node_sequence, sequence_manager, in_flight, atomic>>
    /\ last_call' = out_of_date(last_call)

Next ==
    \/ \E p, c \in Nodes : add_child(p, c)
    \/ \E c, p \in Nodes : add_parent(c, p)
    \/ \E p, c \in Nodes : remove_child(p, c)
    \/ \E c, p \in Nodes : remove_parent(c, p)
    \/ \E n, d \in Nodes : \E o \in Nodes \cup {None} : move_node(n, o, d)

Spec == Init /\ [][Next]_vars

----------------------------------------------------------------------------
(* The DAG ordered by an Edge sequence: EdgeOrderedNode / OrderedEdge with *)
(* the order controller DagEdgeIntSorter.  The sequence is an IntegerField *)
(* of the Edge.  The controller computes with Python numbers; a number is  *)
(* held here in halves (k stands for k/2), which is exact for every value  *)
(* these computations produce.                                             *)

NotImplementedError == "NotImplementedError"
AttributeError == "AttributeError"
AssertionError == "AssertionError"
IndexError == "IndexError"
\* Defined by the library; no code raises it.
NodeSequenceExhaustion == "NodeSequenceExhaustion"

\* An int as a Python number, and int(number): truncation towards zero, as
\* in int(...) and in IntegerField.get_prep_value when the Edge is saved.
Halves(k) == 2 * k
int(h) == IF h >= 0 THEN h \div 2 ELSE -((-h) \div 2)

\* Position, and None where a Position is expected.
FIRST == "FIRST"
LAST == "LAST"
BEFORE == "BEFORE"
AFTER == "AFTER"
NoPosition == "NoPosition"
Position == {FIRST, LAST, BEFORE, AFTER}

\* The rows of E for which the circular check asks, as rows of the plain
\* Edge table.
Plain(E) ==
    {[parent |-> e.parent, child |-> e.child,
      n |-> Cardinality({x \in E : x.parent = e.parent /\ x.child = e.child
                                        /\ x.id <= e.id})] : e \in E}

\* order_by(sequence): rows by sequence; rows of equal sequence come by id.
RECURSIVE order_by_sequence(_)
order_by_sequence(S) ==
    IF S = {} THEN <<>>
    ELSE LET e == CHOOSE x \in S : \A y \in S :
                    x.sequence < y.sequence \/ (x.sequence = y.sequence /\ x.id <= y.id)
         IN <<e>> \o order_by_sequence(S \ {e})

\* Rows in primary-key order (a queryset without order_by).
RECURSIVE order_by_pk(_)
order_by_pk(S) ==
    IF S = {} THEN <<>>
    ELSE LET e == CHOOSE x \in S : \A y \in S : x.id <= y.id
         IN <<e>> \o order_by_pk(S \ {e})

\* get_sorted_edge_queryset(node, 'child', 'parent')
get_sorted_edge_queryset(E, node) ==
    order_by_sequence({e \in E : e.parent = node})

\* Faulty variant: the first row in primary-key order.
get_first_child_ByPk(E, basenode) ==
    LET rows == order_by_pk({e \in E : e.parent = basenode})
    IN IF rows = <<>> THEN None ELSE rows[1].child

get_first_child(E, basenode) ==
    LET rows == get_sorted_edge_queryset(E, basenode)
    IN IF rows = <<>> THEN None ELSE rows[1].child

get_last_child(E, basenode) ==
    LET rows == get_sorted_edge_queryset(E, basenode)
    IN IF rows = <<>> THEN None ELSE rows[Len(rows)].child

get_first_sibling(E, basenode, parent_node) == get_first_child(E, parent_node)
get_last_sibling(E, basenode, parent_node) == get_last_child(E, parent_node)

\* Faulty variant: the sibling of the largest sequence above basenode's is
\* returned instead of the smallest.
get_next_sibling_Farthest(E, basenode, parent_node) ==
    LET own == {e \in E : e.parent = parent_node /\ e.child = basenode}
    IN IF own = {} THEN [raised |-> NoError, value |-> None]
       ELSE IF Cardinality(own) > 1 THEN [raised |-> MultipleObjectsReturned, value |-> None]
       ELSE LET k == (CHOOSE e \in own : TRUE).sequence
                rows == order_by_sequence({e \in E : e.parent = parent_node /\ e.sequence > k})
            IN [raised |-> NoError,
                value |-> IF rows = <<>> THEN None ELSE rows[Len(rows)].child]

\* Edge.objects.get(parent, child) raises DoesNotExist (caught: None is
\* returned) or MultipleObjectsReturned (not caught).
get_next_sibling(E, basenode, parent_node) ==
    LET own == {e \in E : e.parent = parent_node /\ e.child = basenode}
    IN IF own = {} THEN [raised |-> NoError, value |-> None]
       ELSE IF Cardinality(own) > 1 THEN [raised |-> MultipleObjectsReturned, value |-> None]
       ELSE LET k == (CHOOSE e \in own : TRUE).sequence
                rows == order_by_sequence({e \in E : e.parent = parent_node /\ e.sequence > k})
            IN [raised |-> NoError,
                value |-> IF rows = <<>> THEN None ELSE rows[1].child]

\* order_by('-sequence').first()
get_prev_sibling(E, basenode, parent_node) ==
    LET own == {e \in E : e.parent = parent_node /\ e.child = basenode}
    IN IF own = {} THEN [raised |-> NoError, value |-> None]
       ELSE IF Cardinality(own) > 1 THEN [raised |-> MultipleObjectsReturned, value |-> None]
       ELSE LET k == (CHOOSE e \in own : TRUE).sequence
                rows == order_by_sequence({e \in E : e.parent = parent_node /\ e.sequence < k})
            IN [raised |-> NoError,
                value |-> IF rows = <<>> THEN None ELSE rows[Len(rows)].child]

\* DagEdgeIntSorter.key_between: an int.
key_between(E, instance, other, parent) ==
    LET rows == order_by_sequence({e \in E : e.parent = parent /\ e.child \in {instance, other}})
    IN IF Len(rows) # 2 THEN [raised |-> AssertionError, value |-> 0]
       ELSE [raised |-> NoError,
             value |-> int(Halves(rows[1].sequence) + (rows[2].sequence - rows[1].sequence))]

\* DagEdgeIntSorter.next_key: edges[0] + (100 - edges[0]) / 2, a float.
next_key(E, instance, parent) ==
    LET rows == order_by_pk({e \in E : e.parent = parent /\ e.child = instance})
    IN IF rows = <<>> THEN [raised |-> IndexError, value |-> 0]
       ELSE [raised |-> NoError,
             value |-> Halves(rows[1].sequence) + (100 - rows[1].sequence)]

\* DagEdgeIntSorter.prev_key: edges[0] - edges[0] / 2, a float.
prev_key(E, instance, parent) ==
    LET rows == order_by_pk({e \in E : e.parent = parent /\ e.child = instance})
    IN IF rows = <<>> THEN [raised |-> IndexError, value |-> 0]
       ELSE [raised |-> NoError,
             value |-> Halves(rows[1].sequence) - rows[1].sequence]

\* BaseDagOrderController.first_key, which DagEdgeIntSorter does not
\* override (it defines initial_key).
first_key == [raised |-> NotImplementedError, value |-> 0]

\* The primary key of a new row: one no row of the table holds.
new_id(E) == CHOOSE i \in 1..(Cardinality(E) + 1) : \A e \in E : e.id # i

\* Faulty variant: the key is written to every Edge row of the child, as
\* if it were held by the Node.
ordered_add_child_call_EveryParent(E, self, descendant, sequence) ==
    LET chk == circular_checker(Plain(E), self, descendant)
    IN IF chk # NoError THEN [raised |-> chk, edges |-> E]
       ELSE [raised |-> NoError,
             edges |-> {IF e.child = descendant THEN [e EXCEPT !.sequence = int(sequence)] ELSE e : e \in E}
                       \cup {[id |-> new_id(E), parent |-> self,
                              child |-> descendant, sequence |-> int(sequence)]}]

\* self.add_child(descendant, sequence=sequence): the Edge is built and
\* saved; Edge.save checks, then writes the sequence as int(sequence).
ordered_add_child_call(E, self, descendant, sequence) ==
    LET chk == circular_checker(Plain(E), self, descendant)
    IN IF chk # NoError THEN [raised |-> chk, edges |-> E]
       ELSE [raised |-> NoError,
             edges |-> E \cup {[id |-> new_id(E), parent |-> self,
                                child |-> descendant, sequence |-> int(sequence)]}]

\* parent_node.insert_child_before(descendant, after)
insert_child_before_call(E, descendant, parent_node, after) ==
    IF after = None THEN [raised |-> first_key.raised, edges |-> E]
    ELSE LET before == get_prev_sibling(E, after, parent_node)
             between == key_between(E, after, before.value, parent_node)
             prev == prev_key(E, after, parent_node)
         IN IF before.raised # NoError THEN [raised |-> before.raised, edges |-> E]
            ELSE IF before.value # None
            THEN IF between.raised # NoError THEN [raised |-> between.raised, edges |-> E]
                 ELSE ordered_add_child_call(E, parent_node, descendant, Halves(between.value))
            ELSE IF prev.raised # NoError THEN [raised |-> prev.raised, edges |-> E]
                 ELSE ordered_add_child_call(E, parent_node, descendant, prev.value)

\* parent_node.insert_child_after(descendant, before)
insert_child_after_call(E, descendant, parent_node, before) ==
    IF before = None THEN [raised |-> first_key.raised, edges |-> E]
    ELSE LET after == get_next_sibling(E, before, parent_node)
             between == key_between(E, after.value, before, parent_node)
             next == next_key(E, before, parent_node)
         IN IF after.raised # NoError THEN [raised |-> after.raised, edges |-> E]
            ELSE IF after.value # None
            THEN IF between.raised # NoError THEN [raised |-> between.raised, edges |-> E]
                 ELSE ordered_add_child_call(E, parent_node, descendant, Halves(between.value))
            ELSE IF next.raised # NoError THEN [raised |-> next.raised, edges |-> E]
                 ELSE ordered_add_child_call(E, parent_node, descendant, next.value)

\* parent_node.move_child_before(descendant, before): the rows of
\* parent_node.children with id in [before.pk, descendant.pk] are counted,
\* one per Edge row; unless they are 2 InvalidNodeMove is raised.  Nothing
\* else is done.
move_child_before_call(E, descendant, parent_node, before) ==
    IF Cardinality({e \in E : e.parent = parent_node /\ e.child \in {before, descendant}}) # 2
    THEN [raised |-> InvalidNodeMove, edges |-> E]
    ELSE [raised |-> NoError, edges |-> E]

\* parent_node.move_child_after(descendant, after)
move_child_after_call(E, descendant, parent_node, after) ==
    IF Cardinality({e \in E : e.parent = parent_node /\ e.child \in {after, descendant}}) # 2
    THEN [raised |-> InvalidNodeMove, edges |-> E]
    ELSE [raised |-> NoError, edges |-> E]

\* parent_node.insert_child(descendant, position); any position but FIRST
\* reaches the comparison with Position.Last, which is no member of Position.
insert_child_call(E, descendant, parent_node, position) ==
    IF position = FIRST
    THEN insert_child_before_call(E, descendant, parent_node, get_first_child(E, parent_node))
    ELSE [raised |-> AttributeError, edges |-> E]

\* Faulty variant: the Edge is deleted and a new Edge is created for the
\* destination, so the row's identity is lost.
_move_node_NewEdge(E, descendant, origin_parent, destination_parent, sequence) ==
    LET edge == order_by_pk({e \in E : e.parent = origin_parent /\ e.child = descendant})[1]
        moved == [id |-> new_id(E), parent |-> destination_parent,
                  child |-> descendant, sequence |-> int(sequence)]
        chk == circular_checker(Plain(E), destination_parent, descendant)
    IN IF chk # NoError THEN [raised |-> chk, edges |-> E]
       ELSE [raised |-> NoError, edges |-> (E \ {edge}) \cup {moved}]

\* BaseDagEdgeOrderController._move_node: the first Edge origin_parent ->
\* descendant gets the sequence and the new parent and is saved.
_move_node(E, descendant, origin_parent, destination_parent, sequence) ==
    LET edge == order_by_pk({e \in E : e.parent = origin_parent /\ e.child = descendant})[1]
        moved == [edge EXCEPT !.parent = destination_parent, !.sequence = int(sequence)]
        chk == circular_checker(Plain(E), destination_parent, descendant)
    IN IF chk # NoError THEN [raised |-> chk, edges |-> E]
       ELSE [raised |-> NoError, edges |-> (E \ {edge}) \cup {moved}]

\* BaseDagOrderController.move_node.  sequence is <<>> for None and
\* <<number>> otherwise; `not sequence` holds of None and of 0.
not(sequence) == sequence = <<>> \/ sequence[1] = 0

sequence_manager_move_node(E, descendant, origin_parent, destination_parent, destination_sibling, position) ==
    IF destination_sibling = None THEN [raised |-> first_key.raised, edges |-> E]
    ELSE
    LET prev_sibling == get_prev_sibling(E, destination_sibling, destination_parent)
        before_key == key_between(E, prev_sibling.value, destination_sibling, destination_parent)
        err1 == IF position # BEFORE THEN NoError
                ELSE IF prev_sibling.raised # NoError THEN prev_sibling.raised
                ELSE IF prev_sibling.value # None THEN before_key.raised
                ELSE NoError
        seq1 == IF position = BEFORE /\ prev_sibling.value # None
                THEN <<Halves(before_key.value)>> ELSE <<>>
        take_first == position = FIRST \/ (position = BEFORE /\ not(seq1))
        first_sibling == get_first_sibling(E, destination_sibling, destination_parent)
        first_prev == prev_key(E, first_sibling, destination_parent)
        err2 == IF take_first /\ first_sibling # None THEN first_prev.raised ELSE NoError
        seq2 == IF take_first /\ first_sibling # None THEN <<first_prev.value>> ELSE seq1
        next_sibling == get_next_sibling(E, destination_sibling, destination_parent)
        after_key == key_between(E, destination_sibling, next_sibling.value, destination_parent)
        err3 == IF position # AFTER THEN NoError
                ELSE IF next_sibling.raised # NoError THEN next_sibling.raised
                ELSE IF next_sibling.value # None THEN after_key.raised
                ELSE NoError
        seq3 == IF position = AFTER /\ next_sibling.value # None
                THEN <<Halves(after_key.value)>> ELSE seq2
        take_last == position = LAST \/ position = NoPosition
                        \/ (position = AFTER /\ not(seq3))
        last_sibling == get_last_sibling(E, destination_sibling, destination_parent)
        last_next == next_key(E, last_sibling, destination_parent)
        err4 == IF take_last /\ last_sibling # None THEN last_next.raised ELSE NoError
        seq4 == IF take_last /\ last_sibling # None THEN <<last_next.value>> ELSE seq3
    IN IF err1 # NoError THEN [raised |-> err1, edges |-> E]
       ELSE IF err2 # NoError THEN [raised |-> err2, edges |-> E]
       ELSE IF err3 # NoError THEN [raised |-> err3, edges |-> E]
       ELSE IF err4 # NoError THEN [raised |-> err4, edges |-> E]
       ELSE IF seq4 = <<>> THEN [raised |-> AssertionError, edges |-> E]
       ELSE _move_node(E, descendant, origin_parent, destination_parent, seq4[1])

\* Faulty variant: a move without an Edge to move raises DoesNotExist.
ordered_move_node_call_DoesNotExist(E, self, origin_parent, destination_parent, destination_sibling, position) ==
    IF origin_parent = None /\ position # NoPosition
    THEN insert_child_call(E, self, destination_parent, position)
    ELSE IF origin_parent = None
            \/ {e \in E : e.parent = origin_parent /\ e.child = self} = {}
    THEN [raised |-> DoesNotExist, edges |-> E]
    ELSE LET chk == circular_checker(Plain(E), destination_parent, self)
         IN IF chk # NoError THEN [raised |-> chk, edges |-> E]
            ELSE sequence_manager_move_node(E, self, origin_parent, destination_parent,
                                            destination_sibling, position)

\* BaseNode.move_node of a node of the ordered DAG.
ordered_move_node_call(E, self, origin_parent, destination_parent, destination_sibling, position) ==
    IF origin_parent = None /\ position # NoPosition
    THEN insert_child_call(E, self, destination_parent, position)
    ELSE IF origin_parent = None
            \/ {e \in E : e.parent = origin_parent /\ e.child = self} = {}
    THEN [raised |-> InvalidNodeMove, edges |-> E]
    ELSE LET chk == circular_checker(Plain(E), destination_parent, self)
         IN IF chk # NoError THEN [raised |-> chk, edges |-> E]
            ELSE sequence_manager_move_node(E, self, origin_parent, destination_parent,
                                            destination_sibling, position)

\* Largest number of rows the ordered Edge table holds.
MaxOrderedEdges == 3
\* The sequences add_child is called with.
Keys == {0, 1, 3}
\* The nodes that are given children.
OrderedParents == {1, 2}

\* The calls are made on tables whose sequences are all among Keys: a
\* sequence a controller computed outside Keys ends the run.
Seeded(E) == \A e \in E : e.sequence \in Keys

\* move_node is called with no destination sibling or with a child of the
\* destination.
IsSibling(E, destination_sibling, destination_parent) ==
    \/ destination_sibling = None
    \/ \E e \in E : e.parent = destination_parent /\ e.child = destination_sibling

InitEdgeOrder ==
    /\ edges = {} /\ oedges = {}
    /\ node_sequence = default_sequence /\ sequence_manager = DagEdgeIntSorter
    /\ in_flight = no_calls /\ atomic = TRUE /\ last_call = no_call

\* A call that raises leaves the table as it was.
ordered_add_child(self, descendant, sequence) ==
    LET call == ordered_add_child_call(oedges, self, descendant, Halves(sequence))
    IN /\ sequence_manager = DagEdgeIntSorter /\ Seeded(oedges)
       /\ Cardinality(call.edges) <= MaxOrderedEdges
       /\ oedges' = call.edges /\ UNCHANGED <<edges, node_sequence, sequence_manager, in_flight, atomic, last_call>>

insert_child_before(self, descendant, before) ==
    LET call == insert_child_before_call(oedges, descendant, self, before)
    IN /\ sequence_manager = DagEdgeIntSorter /\ Seeded(oedges)
       /\ Cardinality(call.edges) <= MaxOrderedEdges
       /\ oedges' = call.edges /\ UNCHANGED <<edges, node_sequence, sequence_manager, in_flight, atomic, last_call>>

insert_child_after(self, descendant, after) ==
    LET call == insert_child_after_call(oedges, descendant, self, after)
    IN /\ sequence_manager = DagEdgeIntSorter /\ Seeded(oedges)
       /\ Cardinality(call.edges) <= MaxOrderedEdges
       /\ oedges' = call.edges /\ UNCHANGED <<edges, node_sequence, sequence_manager, in_flight, atomic, last_call>>

insert_child(self, descendant, position) ==
    LET call == insert_child_call(oedges, descendant, self, position)
    IN /\ sequence_manager = DagEdgeIntSorter /\ Seeded(oedges)
       /\ Cardinality(call.edges) <= MaxOrderedEdges
       /\ oedges' = call.edges /\ UNCHANGED <<edges, node_sequence, sequence_manager, in_flight, atomic, last_call>>

ordered_move_node(self, origin_parent, destination_parent, destination_sibling, position) ==
    LET call == ordered_move_node_call(oedges, self, origin_parent, destination_parent,
                                       destination_sibling, position)
    IN /\ sequence_manager = DagEdgeIntSorter /\ Seeded(oedges)
       /\ IsSibling(Plain(oedges), destination_sibling, destination_parent)
       /\ Cardinality(call.edges) <= MaxOrderedEdges
       /\ oedges' = call.edges /\ UNCHANGED <<edges, node_sequence, sequence_manager, in_flight, atomic, last_call>>

move_child_before(self, descendant, before) ==
    LET call == move_child_before_call(oedges, descendant, self, before)
    IN /\ sequence_manager = DagEdgeIntSorter /\ Seeded(oedges)
       /\ oedges' = call.edges /\ UNCHANGED <<edges, node_sequence, sequence_manager, in_flight, atomic, last_call>>

move_child_after(self, descendant, after) ==
    LET call == move_child_after_call(oedges, descendant, self, after)
    IN /\ sequence_manager = DagEdgeIntSorter /\ Seeded(oedges)
       /\ oedges' = call.edges /\ UNCHANGED <<edges, node_sequence, sequence_manager, in_flight, atomic, last_call>>

NextEdgeOrder ==
    \/ \E p \in OrderedParents : \E c \in Nodes : \E k \in Keys : ordered_add_child(p, c, k)
    \/ \E p \in OrderedParents : \E c \in Nodes : \E s \in Nodes \cup {None} :
            insert_child_before(p, c, s)
    \/ \E p \in OrderedParents : \E c \in Nodes : \E s \in Nodes \cup {None} :
            insert_child_after(p, c, s)
    \/ \E p \in OrderedParents : \E c \in Nodes : \E pos \in Position : insert_child(p, c, pos)
    \/ \E p \in OrderedParents : \E c \in Nodes : \E s \in Nodes : move_child_before(p, c, s)
    \/ \E p \in OrderedParents : \E c \in Nodes : \E s \in Nodes : move_child_after(p, c, s)
    \/ \E n \in Nodes : \E d \in OrderedParents : \E o \in OrderedParents \cup {None} :
            \E s \in Nodes \cup {None} : \E pos \in Position \cup {NoPosition} :
                ordered_move_node(n, o, d, s, pos)

SpecEdgeOrder == InitEdgeOrder /\ [][NextEdgeOrder]_vars

----------------------------------------------------------------------------
(* The DAG ordered by a Node sequence: OrderedNode / NodeOrderedEdge with  *)
(* the order controller DagNodeIntSorter.  The sequence is an IntegerField *)
(* of the Node; the Edge rows hold their two foreign keys only.  S is the  *)
(* sequence of every Node row.                                             *)

\* order_by(child__sequence): rows by the sequence of the child; rows of
\* equal sequence come by (parent, child, n).
RECURSIVE order_by_child_sequence(_, _)
order_by_child_sequence(S, rows) ==
    IF rows = {} THEN <<>>
    ELSE LET e == CHOOSE x \in rows : \A y \in rows :
                    S[x.child] < S[y.child] \/ (S[x.child] = S[y.child] /\ RowBefore(x, y))
         IN <<e>> \o order_by_child_sequence(S, rows \ {e})

\* BaseDagNodeOrderController.get_sorted_edge_queryset(node, 'child', 'parent')
node_get_sorted_edge_queryset(E, S, node) ==
    order_by_child_sequence(S, {e \in E : e.parent = node})

node_get_first_child(E, S, basenode) ==
    LET rows == node_get_sorted_edge_queryset(E, S, basenode)
    IN IF rows = <<>> THEN None ELSE rows[1].child

node_get_last_child(E, S, basenode) ==
    LET rows == node_get_sorted_edge_queryset(E, S, basenode)
    IN IF rows = <<>> THEN None ELSE rows[Len(rows)].child

\* BaseDagNodeOrderController.get_next_sibling / get_prev_sibling
node_get_next_sibling(E, S, basenode, parent_node) ==
    LET rows == order_by_child_sequence(S,
                    {e \in E : e.parent = parent_node /\ S[e.child] > S[basenode]})
    IN IF rows = <<>> THEN None ELSE rows[1].child

node_get_prev_sibling(E, S, basenode, parent_node) ==
    LET rows == order_by_child_sequence(S,
                    {e \in E : e.parent = parent_node /\ S[e.child] < S[basenode]})
    IN IF rows = <<>> THEN None ELSE rows[Len(rows)].child

\* DagNodeIntSorter.key_between (an int), next_key and prev_key (floats).
node_key_between(S, instance, other) ==
    int(Halves(S[instance]) + (S[other] - S[instance]))
node_next_key(S, instance) == Halves(S[instance]) + (100 - S[instance])
node_prev_key(S, instance) == Halves(S[instance]) - S[instance]

\* self.add_child(descendant, sequence=sequence) on this DAG: a sequence
\* that is not None and not 0 is set on the descendant, which is saved; then
\* the Edge is built and saved.  seq is <<>> for None.
node_add_child_call(E, S, self, descendant, seq) ==
    LET saved == IF seq # <<>> /\ seq[1] # 0
                 THEN [S EXCEPT ![descendant] = int(seq[1])] ELSE S
        call == Edge_save(E, Insert(E, self, descendant), self, descendant, FALSE)
    IN [raised |-> call.raised, edges |-> call.edges, sequence |-> saved]

node_insert_child_before_call(E, S, descendant, parent_node, after) ==
    IF after = None THEN [raised |-> first_key.raised, edges |-> E, sequence |-> S]
    ELSE LET before == node_get_prev_sibling(E, S, after, parent_node)
             seq == IF before # None
                    THEN Halves(node_key_between(S, after, before))
                    ELSE node_prev_key(S, after)
         IN node_add_child_call(E, S, parent_node, descendant, <<seq>>)

node_insert_child_after_call(E, S, descendant, parent_node, before) ==
    IF before = None THEN [raised |-> first_key.raised, edges |-> E, sequence |-> S]
    ELSE LET after == node_get_next_sibling(E, S, before, parent_node)
             seq == IF after # None
                    THEN Halves(node_key_between(S, after, before))
                    ELSE node_next_key(S, before)
         IN node_add_child_call(E, S, parent_node, descendant, <<seq>>)

node_insert_child_call(E, S, descendant, parent_node, position) ==
    IF position = FIRST
    THEN node_insert_child_before_call(E, S, descendant, parent_node,
                                       node_get_first_child(E, S, parent_node))
    ELSE [raised |-> AttributeError, edges |-> E, sequence |-> S]

\* BaseDagOrderController.move_node with the queries of the Node
\* controller; BaseDagNodeOrderController._move_node then reads self.pk of
\* the controller, which has none.
node_sequence_manager_move_node(E, S, descendant, origin_parent, destination_parent, destination_sibling, position) ==
    IF destination_sibling = None THEN first_key.raised
    ELSE
    LET prev_sibling == node_get_prev_sibling(E, S, destination_sibling, destination_parent)
        seq1 == IF position = BEFORE /\ prev_sibling # None
                THEN <<Halves(node_key_between(S, prev_sibling, destination_sibling))>>
                ELSE <<>>
        take_first == position = FIRST \/ (position = BEFORE /\ not(seq1))
        first_sibling == node_get_first_child(E, S, destination_parent)
        seq2 == IF take_first /\ first_sibling # None
                THEN <<node_prev_key(S, first_sibling)>> ELSE seq1
        next_sibling == node_get_next_sibling(E, S, destination_sibling, destination_parent)
        seq3 == IF position = AFTER /\ next_sibling # None
                THEN <<Halves(node_key_between(S, destination_sibling, next_sibling))>>
                ELSE seq2
        take_last == position = LAST \/ position = NoPosition
                        \/ (position = AFTER /\ not(seq3))
        last_sibling == node_get_last_child(E, S, destination_parent)
        seq4 == IF take_last /\ last_sibling # None
                THEN <<node_next_key(S, last_sibling)>> ELSE seq3
    IN IF seq4 = <<>> THEN AssertionError ELSE AttributeError

\* BaseNode.move_node of a node of this DAG.
node_move_node_call(E, S, self, origin_parent, destination_parent, destination_sibling, position) ==
    IF origin_parent = None /\ position # NoPosition
    THEN node_insert_child_call(E, S, self, destination_parent, position)
    ELSE IF origin_parent = None \/ EdgesBetween(E, origin_parent, self) = <<>>
    THEN [raised |-> InvalidNodeMove, edges |-> E, sequence |-> S]
    ELSE LET chk == circular_checker(E, destination_parent, self)
         IN IF chk # NoError THEN [raised |-> chk, edges |-> E, sequence |-> S]
            ELSE [raised |-> node_sequence_manager_move_node(E, S, self, origin_parent,
                                destination_parent, destination_sibling, position),
                  edges |-> E, sequence |-> S]

\* The calls are made while every Node sequence is among Keys.
SeededNodes(S) == \A n \in Nodes : S[n] \in Keys

InitNodeOrder ==
    /\ edges = {} /\ oedges = {}
    /\ node_sequence = default_sequence /\ sequence_manager = DagNodeIntSorter
    /\ in_flight = no_calls /\ atomic = TRUE /\ last_call = no_call

\* The descendant's sequence is saved before Edge.save checks: a call that
\* raises keeps the Edge table and may still have changed the sequence.
node_add_child(self, descendant, sequence) ==
    LET call == node_add_child_call(edges, node_sequence, self, descendant,
                                    <<Halves(sequence)>>)
    IN /\ sequence_manager = DagNodeIntSorter /\ SeededNodes(node_sequence)
       /\ Cardinality(call.edges) <= MaxOrderedEdges
       /\ edges' = call.edges /\ node_sequence' = call.sequence
       /\ UNCHANGED <<oedges, sequence_manager, in_flight, atomic, last_call>>

node_insert_child_before(self, descendant, before) ==
    LET call == node_insert_child_before_call(edges, node_sequence, descendant, self, before)
    IN /\ sequence_manager = DagNodeIntSorter /\ SeededNodes(node_sequence)
       /\ Cardinality(call.edges) <= MaxOrderedEdges
       /\ edges' = call.edges /\ node_sequence' = call.sequence
       /\ UNCHANGED <<oedges, sequence_manager, in_flight, atomic, last_call>>

node_insert_child_after(self, descendant, after) ==
    LET call == node_insert_child_after_call(edges, node_sequence, descendant, self, after)
    IN /\ sequence_manager = DagNodeIntSorter /\ SeededNodes(node_sequence)
       /\ Cardinality(call.edges) <= MaxOrderedEdges
       /\ edges' = call.edges /\ node_sequence' = call.sequence
       /\ UNCHANGED <<oedges, sequence_manager, in_flight, atomic, last_call>>

node_insert_child(self, descendant, position) ==
    LET call == node_insert_child_call(edges, node_sequence, descendant, self, position)
    IN /\ sequence_manager = DagNodeIntSorter /\ SeededNodes(node_sequence)
       /\ Cardinality(call.edges) <= MaxOrderedEdges
       /\ edges' = call.edges /\ node_sequence' = call.sequence
       /\ UNCHANGED <<oedges, sequence_manager, in_flight, atomic, last_call>>

node_move_node(self, origin_parent, destination_parent, destination_sibling, position) ==
    LET call == node_move_node_call(edges, node_sequence, self, origin_parent,
                                    destination_parent, destination_sibling, position)
    IN /\ sequence_manager = DagNodeIntSorter /\ SeededNodes(node_sequence)
       /\ IsSibling(edges, destination_sibling, destination_parent)
       /\ Cardinality(call.edges) <= MaxOrderedEdges
       /\ edges' = call.edges /\ node_sequence' = call.sequence
       /\ UNCHANGED <<oedges, sequence_manager, in_flight, atomic, last_call>>

NextNodeOrder ==
    \/ \E p \in OrderedParents : \E c \in Nodes : \E k \in Keys : node_add_child(p, c, k)
    \/ \E p \in OrderedParents : \E c \in Nodes : \E s \in Nodes \cup {None} :
            node_insert_child_before(p, c, s)
    \/ \E p \in OrderedParents : \E c \in Nodes : \E s \in Nodes \cup {None} :
            node_insert_child_after(p, c, s)
    \/ \E p \in OrderedParents : \E c \in Nodes : \E pos \in Position :
            node_insert_child(p, c, pos)
    \/ \E n \in Nodes : \E d \in OrderedParents : \E o \in OrderedParents \cup {None} :
            \E s \in Nodes \cup {None} : \E pos \in Position \cup {NoPosition} :
                node_move_node(n, o, d, s, pos)

\* Either ordered DAG of the test application.
InitOrdered == InitEdgeOrder \/ InitNodeOrder

NextOrdered == NextEdgeOrder \/ NextNodeOrder

SpecOrdered == InitOrdered /\ [][NextOrdered]_vars

----------------------------------------------------------------------------
(* Graph notions the properties are stated in, defined on the Edge table   *)
(* without the program's traversal: reachability as a least fixed point,   *)
(* distance by breadth-first layers, paths as walks of a given length.     *)

Children(E, n) == {e.child : e \in {x \in E : x.parent = n}}
Parents(E, n) == {e.parent : e \in {x \in E : x.child = n}}

RECURSIVE DownClosure(_, _)
DownClosure(E, S) ==
    LET T == S \cup UNION {Children(E, n) : n \in S}
    IN IF T = S THEN S ELSE DownClosure(E, T)

RECURSIVE UpClosure(_, _)
UpClosure(E, S) ==
    LET T == S \cup UNION {Parents(E, n) : n \in S}
    IN IF T = S THEN S ELSE UpClosure(E, T)

\* The nodes one or more parent-to-child edges below n / above n.
Below(E, n) == DownClosure(E, Children(E, n))
Above(E, n) == UpClosure(E, Parents(E, n))

\* The least number of edges from a down to b, or -1 when there is no path.
RECURSIVE Layers(_, _, _, _)
Layers(E, S, b, k) ==
    IF b \in S THEN k
    ELSE IF S = {} \/ k > Cardinality(E) THEN -1
    ELSE Layers(E, UNION {Children(E, n) : n \in S}, b, k + 1)

Dist(E, a, b) == Layers(E, {a}, b, 0)

\* The chains of k Edge rows leading from a down to b.
RECURSIVE Walks(_, _, _, _)
Walks(E, a, b, k) ==
    IF k = 0 THEN (IF a = b THEN {<<>>} ELSE {})
    ELSE UNION {{<<e>> \o w : w \in Walks(E, e.child, b, k - 1)} :
                    e \in {x \in E : x.parent = a}}

ShortestPaths(E, a, b) ==
    IF Dist(E, a, b) < 0 THEN {} ELSE Walks(E, a, b, Dist(E, a, b))

\* A chain of rows as the nodes it enters / the nodes it leaves.
ChildrenOf(w) == [i \in 1..Len(w) |-> w[i].child]
ParentsOf(w) == [i \in 1..Len(w) |-> w[i].parent]

NoSelfLoop(E) == \A e \in E : e.parent # e.child
Acyclic(E) == \A n \in Nodes : n \notin Below(E, n)

IsInjective(s) == \A i, j \in DOMAIN s : s[i] = s[j] => i = j

----------------------------------------------------------------------------
(* Concurrent callers of add_child on the basic DAG.  BaseNode.add_child   *)
(* builds the Edge and calls Edge.save, which runs circular_checker on the *)
(* table as it is then and afterwards super().save(); no transaction and   *)
(* no lock joins the two, so other callers' writes may fall between them.  *)

\* Nodes and Edge rows of the concurrent runs.
NumRacingNodes == 3
RacingNodes == 1..NumRacingNodes
MaxRacingEdges == 3

\* Faulty variant: the circular check is never made.
Edge_save_begin_Unchecked(E, parent, child) == NoError

\* The first half of Edge.save: what the check raises on the table E.
Edge_save_begin(E, parent, child) ==
    Edge_save(E, Insert(E, parent, child), parent, child, FALSE).raised

\* With a lock of the store a call begins only when no other is in flight.
LockFree(caller) == atomic => \A c \in Callers : in_flight[c] = Idle

InitConcurrent ==
    /\ edges = {} /\ oedges = {}
    /\ node_sequence = default_sequence /\ sequence_manager = NoOrdering
    /\ in_flight = no_calls /\ atomic \in BOOLEAN /\ last_call = no_call

\* add_child up to the end of the check; a call the check refuses ends here.
\* Calls begin while the table is acyclic: on a cycle the traversal of the
\* check does not end, so a cycle ends the run.
begin_add_child(caller, self, descendant) ==
    /\ sequence_manager = NoOrdering
    /\ NoSelfLoop(edges) /\ Acyclic(edges)
    /\ in_flight[caller] = Idle /\ LockFree(caller)
    /\ in_flight' = IF Edge_save_begin(edges, self, descendant) = NoError
                    THEN [in_flight EXCEPT ![caller] =
                            [pc |-> "checked", parent |-> self, child |-> descendant,
                             sequence |-> 0]]
                    ELSE in_flight
    /\ UNCHANGED <<edges, oedges, node_sequence, sequence_manager, atomic, last_call>>

\* super().save(): the row is written to the table as it is now.
end_add_child(caller) ==
    /\ sequence_manager = NoOrdering
    /\ in_flight[caller].pc = "checked"
    /\ Cardinality(edges) < MaxRacingEdges
    /\ edges' = Insert(edges, in_flight[caller].parent, in_flight[caller].child)
    /\ in_flight' = [in_flight EXCEPT ![caller] = Idle]
    /\ UNCHANGED <<oedges, node_sequence, sequence_manager, atomic, last_call>>

NextConcurrent ==
    \/ \E caller \in Callers : \E p, c \in RacingNodes : begin_add_child(caller, p, c)
    \/ \E caller \in Callers : end_add_child(caller)

SpecConcurrent == InitConcurrent /\ [][NextConcurrent]_vars

----------------------------------------------------------------------------
(* Top-level calls of descendants / ancestors between the writes of the    *)
(* table.  Each call starts from cached_results=None, hence a new dict().  *)

\* Largest number of rows of the table between the calls.
MaxReadEdges == 2

\* Faulty variant: the dict of the call before is used again.
dict_Retained(retained) == retained

\* if cached_results is None: cached_results = dict()
dict(retained) == <<>>

\* The value the call returned differs from the one the dict of the call
\* before held for the node.
Changed(before, call, self, res) ==
    /\ before.call = call /\ self \in DOMAIN before.dict
    /\ before.dict[self] # res

\* node.descendants
read_descendants(self) ==
    LET r == _get_descendant(edges, self, dict(IF last_call.call = "descendants" THEN last_call.dict ELSE <<>>))
    IN /\ last_call' = [call |-> "descendants", node |-> self, dict |-> r.cache, fresh |-> TRUE,
                        changed |-> Changed(last_call, "descendants", self, r.res)]
       /\ UNCHANGED <<edges, oedges, node_sequence, sequence_manager, in_flight, atomic>>

\* node.ancestors
read_ancestors(self) ==
    LET r == _get_ancestor(edges, self, dict(IF last_call.call = "ancestors" THEN last_call.dict ELSE <<>>))
    IN /\ last_call' = [call |-> "ancestors", node |-> self, dict |-> r.cache, fresh |-> TRUE,
                        changed |-> Changed(last_call, "ancestors", self, r.res)]
       /\ UNCHANGED <<edges, oedges, node_sequence, sequence_manager, in_flight, atomic>>

NextReads ==
    \/ Next /\ Cardinality(edges') <= MaxReadEdges
    \/ \E n \in Nodes : read_descendants(n)
    \/ \E n \in Nodes : read_ancestors(n)

SpecReads == Init /\ [][NextReads]_vars

----------------------------------------------------------------------------
(* Notions of the ordered Edge table.                                      *)

\* The Edge rows below a parent, and the sequences they hold.
ChildRows(E, p) == {e \in E : e.parent = p}
ChildKeys(E, p) == {e.sequence : e \in ChildRows(E, p)}
\* The sequence of the one Edge p -> c (when there is exactly one).
KeyOf(E, p, c) == (CHOOSE e \in E : e.parent = p /\ e.child = c).sequence
IsChildOnce(E, p, c) == Cardinality({e \in E : e.parent = p /\ e.child = c}) = 1
DistinctKeys(E, p) == Cardinality(ChildKeys(E, p)) = Cardinality(ChildRows(E, p))

NoDuplicateKey(E) == \A p \in Nodes : DistinctKeys(E, p)

----------------------------------------------------------------------------
(* Concurrent callers of insert_child_after / insert_child_before on the   *)
(* DAG ordered by an Edge sequence.  The controller reads the sibling keys *)
(* and computes the new key, then calls add_child with it; no transaction  *)
(* and no lock joins the reads and the write.                              *)

\* Largest number of rows of the table of the concurrent insertions.
MaxInsertedEdges == 4

\* Faulty variant: the step between the two neighbours is not halved.
insert_child_after_key_Whole(E, parent_node, before) ==
    IF before = None THEN first_key
    ELSE LET after == get_next_sibling(E, before, parent_node)
             between == key_between(E, after.value, before, parent_node)
             next == next_key(E, before, parent_node)
         IN IF after.raised # NoError THEN [raised |-> after.raised, value |-> 0]
            ELSE IF after.value # None
            THEN [raised |-> between.raised,
                  value |-> Halves(KeyOf(E, parent_node, after.value))]
            ELSE [raised |-> next.raised, value |-> next.value]

\* insert_child_after up to the call of add_child: the sequence computed
\* from the table E (in halves), or what the reads raise.
insert_child_after_key(E, parent_node, before) ==
    IF before = None THEN first_key
    ELSE LET after == get_next_sibling(E, before, parent_node)
             between == key_between(E, after.value, before, parent_node)
             next == next_key(E, before, parent_node)
         IN IF after.raised # NoError THEN [raised |-> after.raised, value |-> 0]
            ELSE IF after.value # None
            THEN [raised |-> between.raised, value |-> Halves(between.value)]
            ELSE [raised |-> next.raised, value |-> next.value]

\* insert_child_before up to the call of add_child.
insert_child_before_key(E, parent_node, after) ==
    IF after = None THEN first_key
    ELSE LET before == get_prev_sibling(E, after, parent_node)
             between == key_between(E, after, before.value, parent_node)
             prev == prev_key(E, after, parent_node)
         IN IF before.raised # NoError THEN [raised |-> before.raised, value |-> 0]
            ELSE IF before.value # None
            THEN [raised |-> between.raised, value |-> Halves(between.value)]
            ELSE [raised |-> prev.raised, value |-> prev.value]

\* The insertions are made where a key is left: the two neighbours are at
\* least 2 apart, the last child is below 98, the first child above 0.
GapAfter(E, parent_node, ref) ==
    /\ IsChildOnce(E, parent_node, ref)
    /\ \A e \in ChildRows(E, parent_node) :
            e.sequence > KeyOf(E, parent_node, ref) =>
                e.sequence >= KeyOf(E, parent_node, ref) + 2
    /\ KeyOf(E, parent_node, ref) < 98 /\ KeyOf(E, parent_node, ref) >= 0

GapBefore(E, parent_node, ref) ==
    /\ IsChildOnce(E, parent_node, ref)
    /\ \A e \in ChildRows(E, parent_node) :
            e.sequence < KeyOf(E, parent_node, ref) =>
                e.sequence <= KeyOf(E, parent_node, ref) - 2
    /\ KeyOf(E, parent_node, ref) > 0 /\ KeyOf(E, parent_node, ref) <= 100

\* Parent 1 with the child 2 at the sequence 4, parent 2 with the child 3
\* at the sequence 8.
InsertTable ==
    {[id |-> 1, parent |-> 1, child |-> 2, sequence |-> 4],
     [id |-> 2, parent |-> 2, child |-> 3, sequence |-> 8]}

InitConcurrentInsert ==
    /\ edges = {} /\ oedges = InsertTable
    /\ node_sequence = default_sequence /\ sequence_manager = DagEdgeIntSorter
    /\ in_flight = no_calls /\ atomic \in BOOLEAN /\ last_call = no_call

\* The reads of an insertion: the caller holds the key it computed.  A call
\* whose reads raise ends here.
begin_insert(caller, self, descendant, key) ==
    /\ sequence_manager = DagEdgeIntSorter
    /\ in_flight[caller] = Idle /\ LockFree(caller)
    /\ in_flight' = IF key.raised = NoError
                    THEN [in_flight EXCEPT ![caller] =
                            [pc |-> "keyed", parent |-> self, child |-> descendant,
                             sequence |-> key.value]]
                    ELSE in_flight
    /\ UNCHANGED <<edges, oedges, node_sequence, sequence_manager, atomic, last_call>>

begin_insert_child_after(caller, self, descendant, after) ==
    /\ GapAfter(oedges, self, after)
    /\ begin_insert(caller, self, descendant, insert_child_after_key(oedges, self, after))

begin_insert_child_before(caller, self, descendant, before) ==
    /\ GapBefore(oedges, self, before)
    /\ begin_insert(caller, self, descendant, insert_child_before_key(oedges, self, before))

\* parent_node.add_child(descendant, sequence=...) on the table as it is now.
end_insert_child(caller) ==
    LET call == ordered_add_child_call(oedges, in_flight[caller].parent,
                                       in_flight[caller].child, in_flight[caller].sequence)
    IN /\ sequence_manager = DagEdgeIntSorter
       /\ in_flight[caller].pc = "keyed"
       /\ Cardinality(call.edges) <= MaxInsertedEdges
       /\ oedges' = call.edges
       /\ in_flight' = [in_flight EXCEPT ![caller] = Idle]
       /\ UNCHANGED <<edges, node_sequence, sequence_manager, atomic, last_call>>

NextConcurrentInsert ==
    \/ \E caller \in Callers : \E p \in OrderedParents : \E c, s \in Nodes :
            begin_insert_child_after(caller, p, c, s)
    \/ \E caller \in Callers : \E p \in OrderedParents : \E c, s \in Nodes :
            begin_insert_child_before(caller, p, c, s)
    \/ \E caller \in Callers : end_insert_child(caller)

SpecConcurrentInsert == InitConcurrentInsert /\ [][NextConcurrentInsert]_vars

----------------------------------------------------------------------------
(* C1: after any sequence of add_child, add_parent, remove_child and       *)
(* move_node calls (all made with the circular check on), the Edge table   *)
(* holds no self-loop and no directed cycle: no node is its own ancestor.  *)
C1_NoCycle == NoSelfLoop(edges) /\ Acyclic(edges)

\* A chain a -> b -> c stands, and closing it (add_child(c, a), or moving b
\* from a to below c) is refused.
C1_Witness ==
    \E a, b, c \in Nodes :
        /\ a # b /\ b # c /\ a # c
        /\ Count(edges, a, b) > 0 /\ Count(edges, b, c) > 0
        /\ add_child_call(edges, c, a).raised = CyclicLinkMessage
        /\ move_node_call(edges, b, a, c).raised = CyclicLinkMessage

(* C2: add_child(p, c), and c.add_parent(p) alike, raises the self-link    *)
(* error when p = c and the cyclic-link error 'The object is an ancestor.' *)
(* whenever c is already an ancestor of p.                                 *)
C2_AddChildRaises ==
    \A p, c \in Nodes :
        LET child == add_child_call(edges, p, c)
            parent == add_parent_call(edges, c, p)
        IN /\ child = parent
           /\ p = c => child.raised = SelfLinkMessage
           /\ (p # c /\ c \in Above(edges, p)) => child.raised = CyclicLinkMessage

\* c is an ancestor of p two edges up, and add_child(p, c) is refused.
C2_Witness ==
    \E p, c, m \in Nodes :
        /\ Count(edges, c, m) > 0 /\ Count(edges, m, p) > 0 /\ Count(edges, c, p) = 0
        /\ add_child_call(edges, p, c).raised = CyclicLinkMessage
        /\ add_child_call(edges, p, p).raised = SelfLinkMessage

(* C3, as claimed: the guard refuses parent -> child when child's ancestor *)
(* set contains parent, so every edge (p, c) that gets created has p       *)
(* outside c's ancestor set at creation time.                              *)
C3_Original ==
    [][\A e \in edges' \ edges : e.parent \notin Above(edges, e.child)]_vars

(* C3, amended: the guard refuses parent -> child with the cyclic-link     *)
(* error exactly when parent's ancestor set contains child, so every edge  *)
(* (p, c) that gets created or re-homed has c outside p's ancestor set at  *)
(* that time; an edge from a node to one of its descendants is accepted.   *)
C3_Amended ==
    /\ [](\A p, c \in Nodes :
            /\ (circular_checker(edges, p, c) = CyclicLinkMessage)
                    <=> (p # c /\ c \in Above(edges, p))
            /\ (p # c /\ p \in Above(edges, c))
                    => add_child_call(edges, p, c).raised = NoError)
    /\ [][\A e \in edges' \ edges :
            e.parent # e.child /\ e.child \notin Above(edges, e.parent)]_vars

\* A shortcut edge a -> c lies beside a -> b -> c, and c -> a is refused.
C3_Witness ==
    \E a, b, c \in Nodes :
        /\ Count(edges, a, b) > 0 /\ Count(edges, b, c) > 0 /\ Count(edges, a, c) > 0
        /\ circular_checker(edges, c, a) = CyclicLinkMessage

(* C4: for every node n of the graph, descendants(n) is exactly the set of *)
(* nodes one or more parent-to-child edges below n and ancestors(n) the    *)
(* set one or more edges above it; so every edge (p, c) has c among the    *)
(* descendants of p and p among the ancestors of c, a is an ancestor of b  *)
(* iff b is a descendant of a, and get_descendant_pks / get_ancestor_pks   *)
(* list the same sets.                                                     *)
C4_Traversal ==
    /\ \A n \in Nodes :
        /\ descendants(edges, n) = Below(edges, n)
        /\ ancestors(edges, n) = Above(edges, n)
        /\ Range(get_descendant_pks(edges, n)) = Below(edges, n)
        /\ Range(get_ancestor_pks(edges, n)) = Above(edges, n)
    /\ \A e \in edges :
        e.child \in descendants(edges, e.parent) /\ e.parent \in ancestors(edges, e.child)
    /\ \A a, b \in Nodes :
        a \in ancestors(edges, b) <=> b \in descendants(edges, a)

\* A diamond a -> {b, c} -> d: d is found below a along two paths.
C4_Witness ==
    \E a, b, c, d \in Nodes :
        /\ b # c
        /\ Count(edges, a, b) > 0 /\ Count(edges, a, c) > 0
        /\ Count(edges, b, d) > 0 /\ Count(edges, c, d) > 0
        /\ descendants(edges, a) = {b, c, d}
        /\ ancestors(edges, d) = {a, b, c}

(* C5: in every reachable graph and for every node n, n is neither in      *)
(* ancestors(n) nor in descendants(n), clan(n) is ancestors(n) with n and  *)
(* descendants(n), and get_clan_pks(n) lists the clan with n exactly once  *)
(* and no identifier twice.                                                *)
C5_Clan ==
    \A n \in Nodes :
        /\ n \notin ancestors(edges, n)
        /\ n \notin descendants(edges, n)
        /\ clan(edges, n) = Above(edges, n) \cup {n} \cup Below(edges, n)
        /\ Range(get_clan_pks(edges, n)) = clan(edges, n)
        /\ Cardinality({i \in DOMAIN get_clan_pks(edges, n) : get_clan_pks(edges, n)[i] = n}) = 1
        /\ IsInjective(get_clan_pks(edges, n))

\* A node with an ancestor and a descendant: its clan has three members.
C5_Witness ==
    \E a, n, d \in Nodes :
        /\ Count(edges, a, n) > 0 /\ Count(edges, n, d) > 0
        /\ Len(get_clan_pks(edges, n)) >= 3
        /\ {a, n, d} \subseteq clan(edges, n)

(* C6: for every source and target, get_paths returns exactly the         *)
(* minimum-length paths between them in the direction searched: each is a  *)
(* chain of existing edges from the ancestor end to the descendant end     *)
(* (as rows, or as the nodes entered when searching down and the nodes     *)
(* left when searching up), all have the minimal length, none is missing;  *)
(* for source = target the result is exactly [[]].                         *)
C6_ShortestPaths ==
    \A s, t \in Nodes : \A use_edges \in BOOLEAN : \A dw \in Downwards :
        LET r == get_paths(edges, s, t, use_edges, dw)
            down == dw = DownTrue \/ (dw = DownNone /\ (t = s \/ t \in Below(edges, s)))
            a == IF down THEN s ELSE t
            d == IF down THEN t ELSE s
            shortest == ShortestPaths(edges, a, d)
            expected == IF use_edges THEN shortest
                        ELSE IF down THEN {ChildrenOf(w) : w \in shortest}
                        ELSE {ParentsOf(w) : w \in shortest}
        IN r.raised = NoError =>
            /\ Range(r.paths) = expected
            /\ \A i \in DOMAIN r.paths : Len(r.paths[i]) = Dist(edges, a, d)
            /\ s = t => r.paths = << <<>> >>

\* A diamond with a longer way round: two tied paths of two edges are
\* returned from a to d, down and up, and the three-edge path is not.
C6_Witness ==
    \E a, b, c, d \in Nodes :
        /\ b # c
        /\ Count(edges, a, b) > 0 /\ Count(edges, b, d) > 0
        /\ Count(edges, a, c) > 0 /\ Count(edges, c, d) > 0
        /\ Range(get_paths(edges, a, d, FALSE, DownNone).paths) = {<<b, d>>, <<c, d>>}
        /\ Range(get_paths(edges, d, a, FALSE, DownNone).paths) = {<<a, b>>, <<a, c>>}
        /\ Len(get_paths(edges, a, d, TRUE, DownTrue).paths) = 2

(* C7: if k >= 1 parallel edges lead from p to its child c,                *)
(* get_paths(p, c, use_edges=True) returns exactly k paths, each of one    *)
(* edge and each a different one of those edges.                           *)
C7_ParallelEdges ==
    \A p, c \in Nodes : \A dw \in {DownNone, DownTrue} :
        LET k == Count(edges, p, c)
            r == get_paths(edges, p, c, TRUE, dw)
        IN k >= 1 =>
            /\ r.raised = NoError
            /\ Len(r.paths) = k
            /\ IsInjective(r.paths)
            /\ \A i \in DOMAIN r.paths :
                /\ Len(r.paths[i]) = 1
                /\ r.paths[i][1] \in edges
                /\ r.paths[i][1].parent = p /\ r.paths[i][1].child = c

\* Two parallel edges p -> c give two paths.
C7_Witness ==
    \E p, c \in Nodes :
        /\ Count(edges, p, c) = 2
        /\ Len(get_paths(edges, p, c, TRUE, DownNone).paths) = 2

(* C8: get_paths(target, downwards=True) raises NodeNotReachableException  *)
(* whenever target is neither the source nor one of its descendants, also  *)
(* when it is an ancestor; the default search both ways succeeds iff       *)
(* target is the source, a descendant or an ancestor of it, and raises     *)
(* NodeNotReachableException otherwise, also for nodes that only share an  *)
(* ancestor or a descendant with the source.                               *)
C8_NotReachable ==
    \A s, t \in Nodes : \A use_edges \in BOOLEAN :
        LET downOnly == get_paths(edges, s, t, use_edges, DownTrue)
            both == get_paths(edges, s, t, use_edges, DownNone)
            below == t = s \/ t \in Below(edges, s)
            above == t \in Above(edges, s)
        IN /\ downOnly.raised = (IF below THEN NoError ELSE NodeNotReachableException)
           /\ both.raised = (IF below \/ above THEN NoError ELSE NodeNotReachableException)

\* b and c share the parent a (and the child d): neither reaches the other,
\* and a is not found from b when searching down only.
C8_Witness ==
    \E a, b, c, d \in Nodes :
        /\ b # c
        /\ Count(edges, a, b) > 0 /\ Count(edges, a, c) > 0
        /\ Count(edges, b, d) > 0 /\ Count(edges, c, d) > 0
        /\ get_paths(edges, b, c, FALSE, DownNone).raised = NodeNotReachableException
        /\ get_paths(edges, b, a, FALSE, DownTrue).raised = NodeNotReachableException
        /\ get_paths(edges, b, a, FALSE, DownNone).raised = NoError

(* C9: when b is a descendant of a at shortest distance d >= 1,            *)
(* a.distance(b) = d and b.distance(a) = -d, and with directed=False both  *)
(* calls return d; distance(n, n) = 0; distance raises                     *)
(* NodeNotReachableException when neither node is an ancestor of the other.*)
C9_Distance ==
    \A a, b \in Nodes : \A directed \in BOOLEAN :
        LET d == Dist(edges, a, b)
        IN /\ distance(edges, a, a, directed) = [raised |-> NoError, value |-> 0]
           /\ b \in Below(edges, a) =>
                /\ d >= 1
                /\ distance(edges, a, b, TRUE) = [raised |-> NoError, value |-> d]
                /\ distance(edges, b, a, TRUE) = [raised |-> NoError, value |-> -d]
                /\ distance(edges, a, b, TRUE).value = -distance(edges, b, a, TRUE).value
                /\ distance(edges, a, b, FALSE) = [raised |-> NoError, value |-> d]
                /\ distance(edges, b, a, FALSE) = [raised |-> NoError, value |-> d]
           /\ (a # b /\ b \notin Below(edges, a) /\ b \notin Above(edges, a)) =>
                distance(edges, a, b, directed).raised = NodeNotReachableException

\* c lies two edges below a by the short way and three by the long one.
C9_Witness ==
    \E a, b, c, m \in Nodes :
        /\ Count(edges, a, b) > 0 /\ Count(edges, b, m) > 0 /\ Count(edges, m, c) > 0
        /\ Count(edges, a, m) > 0
        /\ distance(edges, a, c, TRUE).value = 2
        /\ distance(edges, c, a, TRUE).value = -2
        /\ distance(edges, c, a, FALSE).value = 2

(* C10: get_roots(n) is the set of the ancestors of n that have no parents *)
(* when n has a parent, and {n} when it has none; get_leaves(n) is the     *)
(* same over descendants and children; neither is ever empty, and for an   *)
(* island node both are {n}.                                               *)
C10_RootsLeaves ==
    \A n \in Nodes :
        /\ get_roots(edges, n) =
            (IF Parents(edges, n) # {}
             THEN {a \in Above(edges, n) : Parents(edges, a) = {}} ELSE {n})
        /\ get_leaves(edges, n) =
            (IF Children(edges, n) # {}
             THEN {d \in Below(edges, n) : Children(edges, d) = {}} ELSE {n})
        /\ get_roots(edges, n) # {} /\ get_leaves(edges, n) # {}
        /\ (Parents(edges, n) = {} /\ Children(edges, n) = {}) =>
                get_roots(edges, n) = {n} /\ get_leaves(edges, n) = {n}

\* The root r is met along two paths above n (r -> m -> n and r -> n) and
\* is reported once; the fourth node is an island.
C10_Witness ==
    \E r, m, n, i \in Nodes :
        /\ Count(edges, r, m) > 0 /\ Count(edges, m, n) > 0 /\ Count(edges, r, n) > 0
        /\ get_roots(edges, n) = {r}
        /\ get_leaves(edges, r) = {n}
        /\ get_roots(edges, m) = {r} /\ get_leaves(edges, m) = {n}
        /\ Parents(edges, i) = {} /\ Children(edges, i) = {}
        /\ get_roots(edges, i) = {i} /\ get_leaves(edges, i) = {i}

----------------------------------------------------------------------------
(* Properties of the DAG ordered by an Edge sequence (SpecEdgeOrder).      *)

\* The literal table of the ordering scenario: parent 1 with the children
\* 5, 6, 7 inserted with the sequences 12, 8, 4.
ScenarioTable ==
    {[id |-> 1, parent |-> 1, child |-> 5, sequence |-> 12],
     [id |-> 2, parent |-> 1, child |-> 6, sequence |-> 8],
     [id |-> 3, parent |-> 1, child |-> 7, sequence |-> 4]}

(* C12: for every parent the sorted children listing holds each of its     *)
(* child rows once, in ascending sequence order (the sequences 12, 8, 4 of *)
(* the children 5, 6, 7 give [7, 6, 5]); get_first_child returns a child   *)
(* holding the smallest sequence, get_last_child one holding the largest,  *)
(* and both return None for a parent without children.                     *)
C12_SortedChildren ==
    /\ \A p \in Nodes :
        LET rows == get_sorted_edge_queryset(oedges, p)
            first == get_first_child(oedges, p)
            last == get_last_child(oedges, p)
        IN /\ Range(rows) = ChildRows(oedges, p)
           /\ Len(rows) = Cardinality(ChildRows(oedges, p))
           /\ \A i, j \in DOMAIN rows : i < j => rows[i].sequence <= rows[j].sequence
           /\ ChildRows(oedges, p) = {} => first = None /\ last = None
           /\ ChildRows(oedges, p) # {} =>
                /\ \E e \in ChildRows(oedges, p) :
                    e.child = first /\ \A x \in ChildRows(oedges, p) : e.sequence <= x.sequence
                /\ \E e \in ChildRows(oedges, p) :
                    e.child = last /\ \A x \in ChildRows(oedges, p) : e.sequence >= x.sequence
    /\ LET rows == get_sorted_edge_queryset(ScenarioTable, 1)
       IN /\ [i \in DOMAIN rows |-> rows[i].child] = <<7, 6, 5>>
          /\ get_first_child(ScenarioTable, 1) = 7
          /\ get_last_child(ScenarioTable, 1) = 5
          /\ get_first_child(ScenarioTable, 5) = None

\* A parent whose three children were inserted in descending sequence
\* order: the first child is the one inserted last.
C12_Witness ==
    \E p \in Nodes : \E a, b, c \in ChildRows(oedges, p) :
        /\ a.id < b.id /\ b.id < c.id
        /\ a.sequence > b.sequence /\ b.sequence > c.sequence
        /\ get_first_child(oedges, p) = c.child
        /\ get_last_child(oedges, p) = a.child
        /\ a.child # c.child

----------------------------------------------------------------------------
(* Properties of either ordered DAG (SpecOrdered).                         *)

\* The table of the DAG in use as basic rows, and the pairs <<child, key>>
\* below a parent: the key is the sequence of the Edge row, or that of the
\* child Node.
OrderedTable == IF sequence_manager = DagEdgeIntSorter THEN Plain(oedges) ELSE edges
SiblingKeys(p) ==
    IF sequence_manager = DagEdgeIntSorter
    THEN {<<e.child, e.sequence>> : e \in ChildRows(oedges, p)}
    ELSE {<<e.child, node_sequence[e.child]>> : e \in {x \in edges : x.parent = p}}
KeysOf(n, p) == {ck[2] : ck \in {x \in SiblingKeys(p) : x[1] = n}}
SiblingsOf(p) == {ck[1] : ck \in SiblingKeys(p)}
DistinctSiblingKeys(p) ==
    \A x, y \in SiblingKeys(p) : x[2] = y[2] => x = y
\* In the Edge variant: n is joined to p by one Edge row only.
JoinedOnce(n, p) ==
    sequence_manager = DagEdgeIntSorter => IsChildOnce(oedges, p, n)

\* The two sibling queries of the controller in use, as [raised, value].
NextSiblingCall(n, p) ==
    IF sequence_manager = DagEdgeIntSorter THEN get_next_sibling(oedges, n, p)
    ELSE [raised |-> NoError, value |-> node_get_next_sibling(edges, node_sequence, n, p)]
PrevSiblingCall(n, p) ==
    IF sequence_manager = DagEdgeIntSorter THEN get_prev_sibling(oedges, n, p)
    ELSE [raised |-> NoError, value |-> node_get_prev_sibling(edges, node_sequence, n, p)]

\* r is what the claim describes for the key k of n: a child of p holding
\* the nearest key above k (up = TRUE) or below k, or None if there is none.
IsNearest(r, k, p, up) ==
    LET beyond == {x \in SiblingKeys(p) : IF up THEN x[2] > k ELSE x[2] < k}
    IN IF beyond = {} THEN r = None
       ELSE \E x \in beyond :
                /\ x[1] = r
                /\ \A y \in beyond : IF up THEN x[2] <= y[2] ELSE x[2] >= y[2]

SiblingContract(n, p) ==
    LET next == NextSiblingCall(n, p)
        prev == PrevSiblingCall(n, p)
    IN /\ next.raised = NoError /\ prev.raised = NoError
       /\ \A k \in KeysOf(n, p) :
            IsNearest(next.value, k, p, TRUE) /\ IsNearest(prev.value, k, p, FALSE)

----------------------------------------------------------------------------
(* Properties of the insertions of the Edge variant (SpecEdgeOrder).       *)

\* The row a successful call added to the table E.
NewRow(E, call) == CHOOSE r \in call.edges : r \notin E

\* new, inserted next to ref by `call`, holds a key strictly between those
\* of lo and hi and is afterwards the immediate neighbour of both.
InsertedBetween(E, call, p, new, lo, hi) ==
    /\ Cardinality(call.edges \ E) = 1
    /\ NewRow(E, call).parent = p /\ NewRow(E, call).child = new
    /\ KeyOf(E, p, lo) < NewRow(E, call).sequence
    /\ NewRow(E, call).sequence < KeyOf(E, p, hi)
    /\ get_next_sibling(call.edges, lo, p) = [raised |-> NoError, value |-> new]
    /\ get_next_sibling(call.edges, new, p) = [raised |-> NoError, value |-> hi]
    /\ get_prev_sibling(call.edges, hi, p) = [raised |-> NoError, value |-> new]
    /\ get_prev_sibling(call.edges, new, p) = [raised |-> NoError, value |-> lo]

(* C14: for every parent p whose children hold distinct keys, every child  *)
(* ref of p and every node new that is no child of p yet: if ref has a     *)
(* next sibling s, a successful insert_child_after(p, new, ref) gives new  *)
(* a key strictly between key(ref) and key(s), after which new is the      *)
(* immediate next sibling of ref and s that of new; a successful           *)
(* insert_child_before(p, new, ref) does the same between ref's previous   *)
(* sibling and ref.                                                        *)
C14_KeyBetween ==
    \A p \in OrderedParents : \A ref \in Nodes : \A new \in Nodes :
        (/\ DistinctKeys(oedges, p)
         /\ \A e \in ChildRows(oedges, p) : IsChildOnce(oedges, p, e.child)
         /\ IsChildOnce(oedges, p, ref)
         /\ ChildRows(oedges, p) \cap {e \in oedges : e.child = new} = {}) =>
            LET s == get_next_sibling(oedges, ref, p).value
                after == insert_child_after_call(oedges, new, p, ref)
                t == get_prev_sibling(oedges, ref, p).value
                before == insert_child_before_call(oedges, new, p, ref)
            IN /\ (s # None /\ after.raised = NoError) =>
                    InsertedBetween(oedges, after, p, new, ref, s)
               /\ (t # None /\ before.raised = NoError) =>
                    InsertedBetween(oedges, before, p, new, t, ref)

\* What the calls of the order controller return in the table E: the
\* insertions and the moves, each as [raised, edges].
ControllerCalls(E) ==
    {insert_child_before_call(E, c, p, s) :
        <<p, c, s>> \in OrderedParents \X Nodes \X (Nodes \cup {None})}
    \cup {insert_child_after_call(E, c, p, s) :
        <<p, c, s>> \in OrderedParents \X Nodes \X (Nodes \cup {None})}
    \cup {insert_child_call(E, c, p, pos) :
        <<p, c, pos>> \in OrderedParents \X Nodes \X Position}
    \cup {ordered_move_node_call(E, a[1], a[2], a[3], a[4], a[5]) :
        a \in {x \in Nodes \X (OrderedParents \cup {None}) \X OrderedParents
                        \X (Nodes \cup {None}) \X (Position \cup {NoPosition}) :
                    IsSibling(Plain(E), x[4], x[3])}}

(* C15: from a table in which no two children of a parent hold the same    *)
(* key, every insert_child_before, insert_child_after, insert_child and    *)
(* move_node either leaves a table without duplicate keys or raises        *)
(* NodeSequenceExhaustion and changes nothing.                             *)
C15_NoDuplicateOrExhausted ==
    NoDuplicateKey(oedges) =>
        \A call \in ControllerCalls(oedges) :
            \/ NoDuplicateKey(call.edges)
            \/ call.raised = NodeSequenceExhaustion /\ call.edges = oedges

\* A parent with the one child 5 at the sequence 8.
OneChildTable == {[id |-> 1, parent |-> 1, child |-> 5, sequence |-> 8]}

(* C16: for every parent p whose children hold distinct keys, every child  *)
(* ref of p and every node new that is no child of p yet: when ref is the  *)
(* last child, a successful insert_child_after(p, new, ref) stores for new *)
(* the key key(ref) + (100 - key(ref))/2 (as an integer), which is above   *)
(* every key below p, and new is the last child afterwards; when ref is    *)
(* the first child, a successful insert_child_before(p, new, ref) stores   *)
(* key(ref) - key(ref)/2, which is below every key, and new is the first   *)
(* child afterwards.  The key 8 gives 54 and 4.                            *)
C16_EndKeys ==
    /\ \A p \in OrderedParents : \A ref \in Nodes : \A new \in Nodes :
        (/\ DistinctKeys(oedges, p)
         /\ \A e \in ChildRows(oedges, p) : IsChildOnce(oedges, p, e.child)
         /\ IsChildOnce(oedges, p, ref)
         /\ ChildRows(oedges, p) \cap {e \in oedges : e.child = new} = {}) =>
            LET k == KeyOf(oedges, p, ref)
                after == insert_child_after_call(oedges, new, p, ref)
                before == insert_child_before_call(oedges, new, p, ref)
            IN /\ (get_last_child(oedges, p) = ref /\ after.raised = NoError) =>
                    /\ NewRow(oedges, after).child = new
                    /\ NewRow(oedges, after).sequence = int(Halves(k) + (100 - k))
                    /\ \A x \in ChildKeys(oedges, p) : x < NewRow(oedges, after).sequence
                    /\ get_last_child(after.edges, p) = new
               /\ (get_first_child(oedges, p) = ref /\ before.raised = NoError) =>
                    /\ NewRow(oedges, before).child = new
                    /\ NewRow(oedges, before).sequence = int(Halves(k) - k)
                    /\ \A x \in ChildKeys(oedges, p) : x > NewRow(oedges, before).sequence
                    /\ get_first_child(before.edges, p) = new
    /\ NewRow(OneChildTable, insert_child_after_call(OneChildTable, 6, 1, 5)).sequence = 54
    /\ NewRow(OneChildTable, insert_child_before_call(OneChildTable, 6, 1, 5)).sequence = 4

----------------------------------------------------------------------------
(* Properties of move_node in either ordered DAG.                          *)

\* The arguments move_node is called with besides the node moved.
Siblings == Nodes \cup {None}
Positions == Position \cup {NoPosition}

\* The successful calls self.move_node(origin, destination, s, pos) in the
\* Edge variant, with the table each leaves.
MovedEdgeTables(self, origin, destination) ==
    {call.edges : call \in
        {c \in {ordered_move_node_call(oedges, self, origin, destination, sp[1], sp[2]) :
                    sp \in Siblings \X Positions} : c.raised = NoError}}

\* The same in the Node variant, as tables of basic rows.
MovedNodeTables(self, origin, destination) ==
    {call.edges : call \in
        {c \in {node_move_node_call(edges, node_sequence, self, origin, destination,
                                    sp[1], sp[2]) :
                    sp \in Siblings \X Positions} : c.raised = NoError}}

\* after is before with one Edge row origin -> self turned into a row
\* destination -> self of the same id, and nothing else changed.
OneEdgeRehomed(before, after, self, origin, destination) ==
    \E e \in before : \E m \in after :
        /\ e.parent = origin /\ e.child = self
        /\ m.parent = destination /\ m.child = self /\ m.id = e.id
        /\ after \ {m} = before \ {e}
        /\ Cardinality(after) = Cardinality(before)

\* The same of tables of basic rows, which hold no id: one row less from
\* origin, one more from destination, every other pair as before.
OneRowRehomed(before, after, self, origin, destination) ==
    /\ Cardinality(after) = Cardinality(before)
    /\ \A p, c \in Nodes :
        Count(after, p, c) = Count(before, p, c)
            + (IF c = self /\ p = destination /\ origin # destination THEN 1 ELSE 0)
            - (IF c = self /\ p = origin /\ origin # destination THEN 1 ELSE 0)

MoveNodeCall(self, origin, destination, s, pos) ==
    IF sequence_manager = DagEdgeIntSorter
    THEN LET call == ordered_move_node_call(oedges, self, origin, destination, s, pos)
         IN [raised |-> call.raised, edges |-> call.edges, sequence |-> node_sequence]
    ELSE node_move_node_call(edges, node_sequence, self, origin, destination, s, pos)

TableInUse == IF sequence_manager = DagEdgeIntSorter THEN oedges ELSE edges

(* C18: in either variant move_node raises InvalidNodeMove when an origin  *)
(* parent is given from which no edge leads to the node, and when neither  *)
(* an origin parent nor a position is given; the call then changes no edge *)
(* and no sequence key.                                                    *)
C18_InvalidNodeMove ==
    \A self \in Nodes : \A origin \in OrderedParents \cup {None} :
        \A destination \in OrderedParents : \A s \in Siblings : \A pos \in Positions :
            (\/ origin # None /\ origin \notin Parents(OrderedTable, self)
             \/ origin = None /\ pos = NoPosition) =>
                MoveNodeCall(self, origin, destination, s, pos)
                    = [raised |-> InvalidNodeMove, edges |-> TableInUse,
                       sequence |-> node_sequence]

\* A node below one parent and not below another one that has children:
\* the move from the wrong origin and the move without origin and position
\* both raise.
C18_Witness ==
    \E self \in Nodes : \E origin, destination \in OrderedParents :
        /\ Parents(OrderedTable, self) = {destination}
        /\ Children(OrderedTable, origin) # {}
        /\ MoveNodeCall(self, origin, destination, None, LAST).raised = InvalidNodeMove
        /\ MoveNodeCall(self, None, origin, None, NoPosition).raised = InvalidNodeMove

----------------------------------------------------------------------------
(* Properties of move_node in the Edge variant (SpecEdgeOrder).            *)

\* self may become a child of destination: no Edge.save would refuse it.
MayMoveTo(E, self, destination) == circular_checker(Plain(E), destination, self) = NoError

(* C19: when the children of destination hold distinct keys and the node   *)
(* may become its child, move_node(origin, destination, position=FIRST)    *)
(* without a destination sibling succeeds and leaves the node the first    *)
(* child of destination; position=LAST leaves it the last child.  This is  *)
(* so for a node joined to origin by one edge (origin may be destination)  *)
(* and for origin None and a node that is no child of destination yet.     *)
C19_FirstLast ==
    \A self \in Nodes : \A destination \in OrderedParents :
        \A origin \in OrderedParents \cup {None} :
            (/\ DistinctKeys(oedges, destination)
             /\ MayMoveTo(oedges, self, destination)
             /\ origin # None => IsChildOnce(oedges, origin, self)
             /\ origin # destination => self \notin Children(Plain(oedges), destination)) =>
                LET first == ordered_move_node_call(oedges, self, origin, destination, None, FIRST)
                    last == ordered_move_node_call(oedges, self, origin, destination, None, LAST)
                IN /\ first.raised = NoError
                   /\ get_first_child(first.edges, destination) = self
                   /\ last.raised = NoError
                   /\ get_last_child(last.edges, destination) = self

\* The children of p other than self, in sequence order.
OtherChildren(E, p, self) ==
    LET rows == get_sorted_edge_queryset({e \in E : e.child # self}, p)
    IN [i \in DOMAIN rows |-> rows[i].child]

(* C20: when the children of destination hold distinct keys, each by one   *)
(* edge, s is one of them, and the node (not s, joined to origin by one    *)
(* edge, no child of destination unless origin is destination) may become  *)
(* a child of destination: a successful move_node(origin, destination, s,  *)
(* BEFORE) leaves the node the immediate previous sibling of s, and the    *)
(* first child if s was first; with AFTER the immediate next sibling of s, *)
(* and the last child if s was last; the other children of destination     *)
(* keep their order.                                                       *)
C20_BeforeAfter ==
    \A self \in Nodes : \A origin, destination \in OrderedParents : \A s \in Nodes :
        (/\ DistinctKeys(oedges, destination)
         /\ \A e \in ChildRows(oedges, destination) : IsChildOnce(oedges, destination, e.child)
         /\ IsChildOnce(oedges, destination, s) /\ s # self
         /\ IsChildOnce(oedges, origin, self)
         /\ origin # destination => self \notin Children(Plain(oedges), destination)
         /\ MayMoveTo(oedges, self, destination)) =>
            LET before == ordered_move_node_call(oedges, self, origin, destination, s, BEFORE)
                after == ordered_move_node_call(oedges, self, origin, destination, s, AFTER)
                others == OtherChildren(oedges, destination, self)
            IN /\ before.raised = NoError =>
                    /\ get_next_sibling(before.edges, self, destination)
                            = [raised |-> NoError, value |-> s]
                    /\ get_prev_sibling(before.edges, s, destination)
                            = [raised |-> NoError, value |-> self]
                    /\ others[1] = s => get_first_child(before.edges, destination) = self
                    /\ OtherChildren(before.edges, destination, self) = others
               /\ after.raised = NoError =>
                    /\ get_prev_sibling(after.edges, self, destination)
                            = [raised |-> NoError, value |-> s]
                    /\ get_next_sibling(after.edges, s, destination)
                            = [raised |-> NoError, value |-> self]
                    /\ others[Len(others)] = s => get_last_child(after.edges, destination) = self
                    /\ OtherChildren(after.edges, destination, self) = others

----------------------------------------------------------------------------
(* Properties of move_child_before / move_child_after (SpecEdgeOrder).     *)

(* C21: under a parent whose children hold distinct keys, each by one      *)
(* edge: for two different children, move_child_before(child, ref)         *)
(* succeeds, changes no parent or child of an edge and leaves child the    *)
(* immediate previous sibling of ref, and move_child_after(child, ref)     *)
(* leaves it the immediate next sibling; when child or ref is no child of  *)
(* the parent both raise InvalidNodeMove and change nothing.               *)
C21_MoveChild ==
    \A p \in OrderedParents : \A child, ref \in Nodes :
        (/\ DistinctKeys(oedges, p)
         /\ \A e \in ChildRows(oedges, p) : IsChildOnce(oedges, p, e.child)) =>
            LET before == move_child_before_call(oedges, child, p, ref)
                after == move_child_after_call(oedges, child, p, ref)
                kids == Children(Plain(oedges), p)
            IN /\ (child \in kids /\ ref \in kids /\ child # ref) =>
                    /\ before.raised = NoError /\ after.raised = NoError
                    /\ Plain(before.edges) = Plain(oedges)
                    /\ Plain(after.edges) = Plain(oedges)
                    /\ get_next_sibling(before.edges, child, p)
                            = [raised |-> NoError, value |-> ref]
                    /\ get_prev_sibling(after.edges, child, p)
                            = [raised |-> NoError, value |-> ref]
               /\ (child \notin kids \/ ref \notin kids) =>
                    /\ before = [raised |-> InvalidNodeMove, edges |-> oedges]
                    /\ after = [raised |-> InvalidNodeMove, edges |-> oedges]

----------------------------------------------------------------------------
(* Properties of the rejected calls in either ordered DAG (SpecOrdered).   *)

\* The calls that write the DAG in use, each as [raised, edges, sequence]:
\* the Edge table and the Node sequences it leaves.  add_parent is add_child
\* called on the parent.
WithSequences(call) ==
    [raised |-> call.raised, edges |-> call.edges, sequence |-> node_sequence]

EdgeVariantCalls ==
    {WithSequences(ordered_add_child_call(oedges, p, c, Halves(k))) :
        <<p, c, k>> \in OrderedParents \X Nodes \X Keys}
    \cup {WithSequences(call) : call \in ControllerCalls(oedges)}

NodeVariantCalls ==
    {node_add_child_call(edges, node_sequence, p, c, <<Halves(k)>>) :
        <<p, c, k>> \in OrderedParents \X Nodes \X Keys}
    \cup {node_insert_child_before_call(edges, node_sequence, c, p, s) :
        <<p, c, s>> \in OrderedParents \X Nodes \X Siblings}
    \cup {node_insert_child_after_call(edges, node_sequence, c, p, s) :
        <<p, c, s>> \in OrderedParents \X Nodes \X Siblings}
    \cup {node_insert_child_call(edges, node_sequence, c, p, pos) :
        <<p, c, pos>> \in OrderedParents \X Nodes \X Position}
    \cup {node_move_node_call(edges, node_sequence, a[1], a[2], a[3], a[4], a[5]) :
        a \in {x \in Nodes \X (OrderedParents \cup {None}) \X OrderedParents
                        \X Siblings \X Positions : IsSibling(edges, x[4], x[3])}}

(* C22: in either variant a call of add_child, add_parent, an insertion or *)
(* move_node that the self-link or cycle check rejects leaves the Edge     *)
(* table and every sequence of a Node or an Edge as they were.             *)
C22_RejectedNoEffect ==
    \A call \in (IF sequence_manager = DagEdgeIntSorter
                 THEN EdgeVariantCalls ELSE NodeVariantCalls) :
        call.raised \in {SelfLinkMessage, CyclicLinkMessage} =>
            call.edges = TableInUse /\ call.sequence = node_sequence

----------------------------------------------------------------------------
(* Further properties of the basic DAG (Spec).                             *)

(* C23: for every source and target and every direction, get_paths with   *)
(* use_edges=False returns no node path twice, whatever parallel edges     *)
(* the graph holds.                                                        *)
C23_NoDuplicateNodePath ==
    \A s, t \in Nodes : \A dw \in Downwards :
        LET r == get_paths(edges, s, t, FALSE, dw)
        IN r.raised = NoError => IsInjective(r.paths)

\* w is a connected chain of Edge rows from a down to b.
IsChain(E, w, a, b) ==
    /\ Len(w) >= 1
    /\ \A i \in DOMAIN w : w[i] \in E
    /\ w[1].parent = a /\ w[Len(w)].child = b
    /\ \A i \in 1..(Len(w) - 1) : w[i].child = w[i + 1].parent

(* C24: when a is a strict ancestor of b, b.get_paths(a, use_edges=True)   *)
(* returns the paths of a.get_paths(b, use_edges=True), each a connected   *)
(* chain of edges from a down to b; with use_edges=False the upward query  *)
(* returns of each such chain the nodes from a down to the parent of b,    *)
(* the downward query the nodes from the child of a down to b.             *)
C24_UpEqualsDown ==
    \A a, b \in Nodes :
        b \in Below(edges, a) =>
            LET up == get_paths(edges, b, a, TRUE, DownNone)
                down == get_paths(edges, a, b, TRUE, DownNone)
                upNodes == get_paths(edges, b, a, FALSE, DownNone)
                downNodes == get_paths(edges, a, b, FALSE, DownNone)
            IN /\ up.raised = NoError /\ down.raised = NoError
               /\ upNodes.raised = NoError /\ downNodes.raised = NoError
               /\ up.paths = down.paths
               /\ get_paths(edges, b, a, TRUE, DownFalse) = up
               /\ \A i \in DOMAIN down.paths : IsChain(edges, down.paths[i], a, b)
               /\ Range(upNodes.paths) = {ParentsOf(w) : w \in Range(down.paths)}
               /\ Range(downNodes.paths) = {ChildrenOf(w) : w \in Range(down.paths)}
               /\ \A i \in DOMAIN upNodes.paths :
                    /\ upNodes.paths[i][1] = a
                    /\ b \notin Range(upNodes.paths[i])
               /\ \A i \in DOMAIN downNodes.paths :
                    /\ downNodes.paths[i][Len(downNodes.paths[i])] = b
                    /\ a \notin Range(downNodes.paths[i])

\* A chain a -> m -> b: the upward query from b returns the edges from a
\* down, and the nodes [a, m], while the downward query returns [m, b].
C24_Witness ==
    \E a, m, b \in Nodes :
        /\ Count(edges, a, m) = 1 /\ Count(edges, m, b) = 1 /\ Count(edges, a, b) = 0
        /\ get_paths(edges, b, a, FALSE, DownNone).paths = << <<a, m>> >>
        /\ get_paths(edges, a, b, FALSE, DownNone).paths = << <<m, b>> >>
        /\ Len(get_paths(edges, b, a, TRUE, DownNone).paths) = 1
        /\ get_paths(edges, b, a, TRUE, DownNone).paths[1][1].parent = a

----------------------------------------------------------------------------
(* Properties of concurrent callers (SpecConcurrent).                      *)

(* C25: when every check-then-insert of add_child runs under a lock, no    *)
(* interleaving of concurrent add_child calls leaves a self-loop or a      *)
(* cycle, and every call in flight is one the present table still admits;  *)
(* without the lock a call in flight may be one the table no longer        *)
(* admits, and its write then closes a cycle.                              *)
C25_AtomicNoCycle ==
    atomic =>
        /\ NoSelfLoop(edges) /\ Acyclic(edges)
        /\ \A c \in Callers :
            in_flight[c] # Idle =>
                circular_checker(edges, in_flight[c].parent, in_flight[c].child) = NoError

\* Without the lock: the table holds a cycle a -> b -> a, or a longer one,
\* each of whose edges passed its check when it was made.
C25_Witness ==
    /\ ~atomic
    /\ \A c \in Callers : in_flight[c] = Idle
    /\ NoSelfLoop(edges) /\ ~Acyclic(edges)
    /\ \E a, b, c \in RacingNodes :
        /\ a # b /\ b # c /\ a # c
        /\ Count(edges, a, b) = 1 /\ Count(edges, b, c) = 1 /\ Count(edges, c, a) = 1

(* C26: when every key-computation-then-insert runs under a lock and the   *)
(* insertions are made where a key is left, no interleaving of concurrent  *)
(* insert_child_after / insert_child_before calls leaves two rows of one   *)
(* parent with the same key; without the lock two callers read the same    *)
(* sibling keys, compute the same key and both persist it.                 *)
C26_AtomicDistinctKeys ==
    atomic => NoDuplicateKey(oedges)

\* Without the lock: two different children of one parent hold the same
\* key, after both callers inserted after the same sibling.
C26_Witness ==
    /\ ~atomic
    /\ \A c \in Callers : in_flight[c] = Idle
    /\ \E x, y \in oedges :
        /\ x \notin InsertTable /\ y \notin InsertTable
        /\ x.parent = y.parent /\ x.child # y.child /\ x.sequence = y.sequence


(* C27: within one top-level descendants / ancestors computation on the    *)
(* acyclic graph, the loop over a node's children (resp. parents) runs at  *)
(* most once for each node, however many paths lead to it, the computation *)
(* terminates, and its result equals the recursive set union computed with *)
(* no cache.                                                               *)
C27_ExpandedOnce ==
    \A n \in Nodes :
        LET down == _get_descendant(edges, n, <<>>)
            up == _get_ancestor(edges, n, <<>>)
        IN /\ IsInjective(down.expanded)
           /\ IsInjective(up.expanded)
           /\ down.res = descendants_set(edges, n)
           /\ up.res = ancestors_set(edges, n)

\* A node with children of its own is reached from n along two different
\* edges, and the computation from n expanded it.
C27_Witness ==
    \E n, m \in Nodes :
        /\ Children(edges, m) # {}
        /\ Cardinality({e \in edges : e.child = m /\ e.parent \in {n} \cup descendants(edges, n)}) >= 2
        /\ m \in Range(_get_descendant(edges, n, <<>>).expanded)

ChangedOutside(before, after, P) == {e \in before : e.parent # P /\ e \notin after}

\* A call under the parent P: no row is added but under P, no row of
\* another parent is changed but the moved ones, and the sorted children of
\* every other parent are what they were, the moved rows aside.
KeptOutside(before, after, P, moved) ==
    LET changed == ChangedOutside(before, after, P)
    IN \/ after = before
       \/ /\ changed \subseteq moved
          /\ Cardinality(changed) <= 1
          /\ \A e \in after \ before : e.parent = P
          /\ \A q \in {e.parent : e \in before \cup after} \ {P} :
                get_sorted_edge_queryset(after, q) = get_sorted_edge_queryset(before \ changed, q)

(* C29: in the DAG ordered by an Edge sequence, add_child with a key,      *)
(* insert_child_before, insert_child_after and move_node made under a      *)
(* parent P change the key of no Edge row of another parent, the one moved *)
(* row aside, and leave the sorted children of every other parent as they  *)
(* were.                                                                   *)
C29_OtherParentsKept ==
    \A P \in OrderedParents : \A c \in Nodes :
        /\ \A k \in Keys :
            KeptOutside(oedges, ordered_add_child_call(oedges, P, c, Halves(k)).edges, P, {})
        /\ \A s \in Siblings :
            /\ KeptOutside(oedges, insert_child_before_call(oedges, c, P, s).edges, P, {})
            /\ KeptOutside(oedges, insert_child_after_call(oedges, c, P, s).edges, P, {})
        /\ \A o \in OrderedParents \cup {None} : \A s \in Siblings : \A pos \in Positions :
            IsSibling(Plain(oedges), s, P) =>
                KeptOutside(oedges, ordered_move_node_call(oedges, c, o, P, s, pos).edges, P,
                            {e \in oedges : e.parent = o /\ e.child = c})

\* A child holds different keys under two parents, and an insertion after
\* it under one of them is made, which leaves the rows of the other.
C29_Witness ==
    \E P, Q \in OrderedParents : \E c, new \in Nodes :
        /\ P # Q
        /\ IsChildOnce(oedges, P, c) /\ IsChildOnce(oedges, Q, c)
        /\ KeyOf(oedges, P, c) # KeyOf(oedges, Q, c)
        /\ LET call == insert_child_after_call(oedges, new, P, c)
           IN /\ call.raised = NoError /\ call.edges # oedges
              /\ {e \in call.edges : e.parent = Q} = {e \in oedges : e.parent = Q}

(* C30: remove_child(p, c), and c.remove_parent(p) alike, succeeds         *)
(* whenever at least one edge p -> c exists, several parallel edges        *)
(* included, and then removes exactly one such edge and leaves every other *)
(* edge as it was, so that add_child followed by remove_child of the same  *)
(* pair restores the edge set; it fails only when no edge p -> c exists,   *)
(* and the graph is then unchanged.                                        *)
C30_RemoveOne ==
    \A p, c \in Nodes :
        LET call == remove_child_call(edges, p, c)
            added == add_child_call(edges, p, c)
        IN /\ remove_parent_call(edges, c, p) = call
           /\ IF Count(edges, p, c) >= 1
              THEN /\ call.raised = NoError
                   /\ call.edges \subseteq edges
                   /\ Count(call.edges, p, c) = Count(edges, p, c) - 1
                   /\ Cardinality(call.edges) = Cardinality(edges) - 1
              ELSE call.raised # NoError /\ call.edges = edges
           /\ added.raised = NoError =>
                remove_child_call(added.edges, p, c) = [raised |-> NoError, edges |-> edges]
====
